---- MODULE Spec2Model ----
(***************************************************************************)
(* Model of the log ingestion pipeline of logfile-mcp-server:              *)
(*   - BaseLogProcessor       (app/processors/base.py)                     *)
(*   - LogProcessingOrchestrator (app/processing/orchestrator.py)          *)
(*   - LogFileDiscovery       (app/file_discovery/discovery.py)            *)
(*   - DatabaseOperations.execute_query (app/database/base.py), reached    *)
(*     through MCPTools (app/mcp/tools.py) and the web route               *)
(*     (app/web/routes.py)                                                 *)
(* The specifications share the variables: SpecProc runs one stream        *)
(* through the chunked stream processor, SpecFile runs one call of         *)
(* process_file_to_database, Spec runs process_all_logs, SpecDisc runs one *)
(* discovery walk with nested archives, SpecExtract runs one call of       *)
(* _extract_archive, and SpecQuery runs one SQL query.  SpecClassify runs   *)
(* one archive name through is_archive_file and _extract_archive,          *)
(* SpecCleanup one cleanup_temp_directories, SpecInsert one batch_insert,  *)
(* SpecServer (FairSpecServer with its scheduling) the start and stop of   *)
(* the network MCP server, SpecNexusLine the nexus pattern on one line     *)
(* tail, SpecRequest _parse_request_field on one request string, and       *)
(* SpecParse one parse_log_line call.                                      *)
(***************************************************************************)
EXTENDS Integers, Sequences, FiniteSets, TLC

(***************************************************************************)
(* Bounds of the model                                                     *)
(***************************************************************************)
MaxLines == 4          \* longest stream fed to the stream processor
MaxChunk == 3          \* largest chunk_size tried
MaxBatch == 3          \* largest batch_size tried
MaxFiles == 2          \* most files one discovery hands to the orchestrator
MaxEntries == 2        \* most files the walk of the base directory reports
MaxMembers == 2        \* most files one extracted archive holds
MaxArchives == 4       \* most archives one walk meets
MaxDepth == 2          \* largest max_archive_depth configured
MaxArchiveMembers == 2 \* most members of the archive given to _extract_archive
MaxLimit == 2          \* largest limit argument a caller passes
MaxRows == 3           \* most rows a query selects
MaxSuffixes == 3       \* most dot-separated parts after the stem of a file name
MaxTempDirs == 3       \* most temp directories registered when cleanup_temp_dirs runs
MaxInsertBatch == 3    \* most entries of the batch given to batch_insert
MaxStopCalls == 3      \* most calls of stop() the caller makes
MaxTicks == 3          \* rounds of the server loop that are told apart
MaxTailTokens == 4     \* most tokens after processing_time_ms in a nexus line
MaxRequestTokens == 4  \* most tokens of a request string

(***************************************************************************)
(* Program constants                                                       *)
(***************************************************************************)
OrchestratorBatchSize == 1000   \* batch_size=1000 in LogProcessingOrchestrator.__init__
DefaultChunkSize == 1000        \* Settings.chunk_size default
DefaultMaxArchiveDepth == 3     \* LogFileDiscovery.__init__(max_archive_depth=3)
McpDefaultLimit == 100          \* execute_sql_query(query, limit=100)
WebDefaultLimit == 100          \* `query_request.limit or 100`
PathKeep == 50                  \* request_str[:50] in _parse_request_field
EllipsisLen == 3                \* len('...')
BinaryMarkLen == 8              \* len('[BINARY]')
WebMaxLimit == 1000             \* `min(..., 1000)`

VARIABLES
    \* ---- BaseLogProcessor, one stream (SpecProc) ----
    p_mode,        \* "content" (process_file_content) or "lines" (process_file_lines)
    chunk_size,    \* self.chunk_size
    batch_size,    \* self.batch_size
    p_stream,      \* the input: a sequence of line kinds
    p_pos,         \* number of lines consumed from the stream
    p_gen,         \* generator locals: lines_buffer, batch, yielded batches, counters
    p_pc,          \* "run" while the generator is live, "done" once exhausted
    \* ---- LogProcessingOrchestrator.process_all_logs (Spec) ----
    settings,      \* Settings: chunk_size, max_archive_depth
    o_pc,          \* position inside process_all_logs
    o_family,      \* log_type of the family being handled
    log_files,     \* log_files of _process_logs_by_type (file ids, in discovery order)
    o_origin,      \* per file of log_files: 0 for a direct file, else the index in
                   \* temp_dirs of the directory its archive was unpacked to
    o_idx,         \* index of the next file of the `for` loop
    o_stats,       \* the local `stats` of _process_logs_by_type
    statistics,    \* ProcessingStatistics
    processors,    \* processed_count / error_count of nginx_processor, nexus_processor
    temp_dirs,     \* file_discovery._temp_dirs: the depth of each registered directory
    handed,        \* file ids passed to _process_single_file in this family, in call order
    families,      \* families whose _process_logs_by_type has returned, in order
    cleanup_calls, \* number of calls of cleanup_temp_dirs
    o_result,      \* "none", "returned" or "raised": how process_all_logs ended
    o_exception,   \* what raised into process_all_logs: "None", "summary", "discovery"
    last_file,     \* the _process_single_file call just made in this family: input and result
    \* ---- LogFileDiscovery, one walk (SpecDisc) ----
    d_owner,       \* who built the discovery: "orchestrator" or "direct" (a caller's own)
    max_archive_depth, \* self.max_archive_depth
    d_pc,          \* "walk" while the generator is live, "done" once exhausted
    d_walked,      \* files of the base directory the walk has reported so far
    processed_files,   \* processed_files of _discover_files_by_patterns
    d_stack,       \* live _process_extracted_contents generators, outermost first
    d_archives,    \* archives met so far
    d_last,        \* what the latest step of the walk did
    d_warnings,    \* "Maximum archive depth ... reached" warnings printed so far
    d_errors,      \* "Failed to extract" / "Unsupported archive format" messages printed so far
    \* ---- LogFileDiscovery._extract_archive, one tar or zip archive (SpecExtract) ----
    x_kind,        \* "tar" or "zip"
    x_members,     \* tar.getmembers() / zip_file.namelist(): the member names, in order
    x_pos,         \* members the loop has handled
    x_extracted,   \* indices of the members passed to extract(), in call order
    x_warned,      \* indices of the members reported as "Unsafe path in archive"
    x_pc,          \* "open", "run", "true" / "false": the value returned
    \* ---- one SQL query through a query surface (SpecQuery) ----
    q_surface,     \* "db" (execute_query called directly), "mcp" (execute_sql_query), "web"
    q_query,       \* the query text, a sequence of tokens
    q_limit,       \* the limit argument; 0 stands for None
    q_rows,        \* rows the query selects when nothing limits it
    q_pc,          \* "call", "db" (inside execute_query), "rejected", "done", "db_error"
    q_sent,        \* the texts given to session.execute, in order
    q_returned,    \* number of rows returned to the caller
    \* ---- BaseLogProcessor.process_file_to_database, one file (SpecFile) ----
    f_family,      \* the processor: "nginx" (NginxLogProcessor) or "nexus"
    f_stream,      \* the lines of the file handle
    f_next,        \* batches the `for` loop has taken from process_file_content
    f_calls,       \* the calls of the batch insert method, in order
    f_pc,          \* "loop", "stats", "done"
    f_stats,       \* the stats returned
    \* ---- one matched file: _is_archive_file, then _extract_archive (SpecClassify) ----
    c_name,        \* the file name: the stem is "access", these are its dot-separated parts
    c_pc,          \* "matched", "archive", "yielded", "extracted", "unsupported", "idle"
    c_handler,     \* the branch of _extract_archive taken: "tar", "zip", "gz", "none"
    \* ---- LogFileDiscovery.cleanup_temp_dirs, one call (SpecCleanup) ----
    r_kinds,       \* per registered directory: "removable", "undeletable", "missing"
    r_temp_dirs,   \* self._temp_dirs, as indices into r_kinds
    r_pos,         \* directories the loop has handled
    r_attempted,   \* indices passed to shutil.rmtree, in call order
    r_removed,     \* indices whose rmtree succeeded
    r_warned,      \* indices reported as "Failed to cleanup temp directory"
    r_pc,          \* "loop", "returned", "raised", "idle"
    \* ---- NginxLogDatabase / NexusLogDatabase.batch_insert, one call (SpecInsert) ----
    b_log_data,    \* log_data: per entry "ok", "null" (a NOT NULL column is missing), "nondict"
    b_before,      \* rows of the table when the call starts
    b_table,       \* rows of the table (committed)
    b_pos,         \* entries the loop has handled
    b_logs,        \* nginx_logs / nexus_logs: indices of the model objects built
    b_session,     \* indices added to the session and flushed, not yet committed
    b_result,      \* the value of the `return` reached inside the `with`, -1 before
    b_rolled_back, \* session.rollback() was called
    b_closed,      \* session.close() was called
    b_pc,          \* "start", "build", "commit", "returned", "raised", "idle"
    \* ---- LogAnalysisMCPServer in network mode: a caller and the server thread ----
    m_running,     \* self._running
    m_caller,      \* "start", "sleep", "ready", "stop_set", "join", "idle"
    m_thread,      \* the thread of run_server: "none", "spawned", "loop", "exited"
    m_ticks,       \* rounds of `await asyncio.sleep(1)` the server loop has made
    m_stops,       \* calls of stop() that have returned
    m_start_log,   \* what start() logged: "started", "failed", "none"
    \* ---- NexusLogProcessor.parse_log_line on the end of one line (SpecNexusLine) ----
    n_tail,        \* what follows processing_time_ms in the line, as tokens
    n_pc,          \* "line", "record" (a record was returned), "none" (None was returned), "idle"
    n_record,      \* user_agent and thread_info of the record returned
    \* ---- NginxLogProcessor._parse_request_field on one request string (SpecRequest) ----
    g_request,     \* request_str, as tokens
    g_pc,          \* "call", "returned", "idle"
    g_result,      \* the tuple returned: method, path, http_version
    \* ---- parse_log_line of either processor on one line (SpecParse) ----
    y_family,      \* "nginx" or "nexus"
    y_line,        \* the line: how it meets the pattern, its timestamp, status and size fields
    y_pc,          \* "match", "timestamp", "status", "returned", "raised", "idle"
    y_timestamp,   \* the local `timestamp`: "unset", "set", "null"
    y_result       \* what was returned: None, or the record's fields

procVars == <<p_mode, chunk_size, batch_size, p_stream, p_pos, p_gen, p_pc>>
orchVars == <<settings, o_pc, o_family, log_files, o_origin, o_idx, o_stats, statistics,
              processors, temp_dirs, handed, families, cleanup_calls, o_result,
              o_exception, last_file>>

discVars == <<d_owner, max_archive_depth, d_pc, d_walked, processed_files,
              d_stack, d_archives, d_last, d_warnings, d_errors>>

extVars == <<x_kind, x_members, x_pos, x_extracted, x_warned, x_pc>>

qryVars == <<q_surface, q_query, q_limit, q_rows, q_pc, q_sent, q_returned>>

fileVars == <<f_family, f_stream, f_next, f_calls, f_pc, f_stats>>

claVars == <<c_name, c_pc, c_handler>>

clnVars == <<r_kinds, r_temp_dirs, r_pos, r_attempted, r_removed, r_warned, r_pc>>

insVars == <<b_log_data, b_before, b_table, b_pos, b_logs, b_session, b_result,
             b_rolled_back, b_closed, b_pc>>

srvVars == <<m_running, m_caller, m_thread, m_ticks, m_stops, m_start_log>>

nexVars == <<n_tail, n_pc, n_record>>

reqVars == <<g_request, g_pc, g_result>>

parVars == <<y_family, y_line, y_pc, y_timestamp, y_result>>

vars == <<procVars, orchVars, discVars, extVars, qryVars, fileVars, claVars, clnVars, insVars, srvVars, nexVars, reqVars, parVars>>

(***************************************************************************)
(* Streams.  A line is one of: "ok" (non-blank, parse_log_line returns a   *)
(* record), "bad" (non-blank, parse_log_line returns None), "blank"        *)
(* (empty after strip()), "raise" (reading this line raises, e.g. an I/O   *)
(* error of the underlying handle), "nr" (a last line without its newline, *)
(* not blank, no log entry, made only of the characters n, r and           *)
(* backslash, such as "n").                                                *)
(***************************************************************************)
LineKinds == {"ok", "bad", "blank", "raise", "nr"}

\* Only the last line of a stream can lack its newline.
WellFormedStream(stream) ==
    \A i \in 1..Len(stream) : stream[i] = "nr" => i = Len(stream)

\* `line = line.rstrip('\\n\\r')` then `if not line.strip(): continue`
\* (base.py 112, 120, 163-166).  The argument of rstrip is the four
\* characters backslash, n, backslash, r: a trailing newline stops the
\* stripping, and a line that ends without one loses its trailing n, r and
\* backslash characters.
SkippedAsEmpty(kind) == kind \in {"blank", "nr"}

RECURSIVE SeqsUpTo(_, _)
SeqsUpTo(S, n) ==
    IF n = 0 THEN {<<>>}
    ELSE LET shorter == SeqsUpTo(S, n - 1)
         IN  shorter \cup {Append(s, x) : s \in {t \in shorter : Len(t) = n - 1}, x \in S}

Min(a, b) == IF a < b THEN a ELSE b

\* The generator's locals at its start (base.py 99-103 and 154-158), on top of
\* the processor's running counters.
GenStart(processed, errors) ==
    [buf |-> <<>>, batch |-> <<>>, out |-> <<>>,
     processed |-> processed, errors |-> errors]

\* `yield batch; batch = []`: the batch leaves the generator.  Each yielded
\* batch remembers the processor counters at the moment of the yield, which is
\* what a consumer that stops at this batch observes.
YieldBatch(g) ==
    [g EXCEPT !.out = Append(@, [records |-> g.batch,
                                 processed_at |-> g.processed,
                                 errors_at |-> g.errors]),
              !.batch = <<>>]

\* The "yield when the batch is full" test of the per-line loop
\* (base.py 131 and 181).
BatchFull(batch, B) == Len(batch) >= B

\* One parse_log_line call and its bookkeeping (base.py 123-128, 173-178,
\* 189-194); `check` says whether the loop holds the batch-size test.
ParseOne(g, kind, num, B, check) ==
    LET g1 == IF kind = "ok"
              THEN [g EXCEPT !.batch = Append(@, num), !.processed = @ + 1]
              ELSE [g EXCEPT !.errors = @ + 1]
    IN  IF check /\ BatchFull(g1.batch, B) THEN YieldBatch(g1) ELSE g1

RECURSIVE ParseAll(_, _, _, _, _)
ParseAll(g, stream, nums, B, check) ==
    IF nums = <<>> THEN g
    ELSE ParseAll(ParseOne(g, stream[Head(nums)], Head(nums), B, check),
                  stream, Tail(nums), B, check)

\* The body of `for line in file_obj` of process_file_content for line
\* number n (base.py 161-185).
ContentLine(g, stream, n, C, B) ==
    IF SkippedAsEmpty(stream[n]) THEN g
    ELSE LET buf == Append(g.buf, n)
         IN  IF Len(buf) >= C
             THEN ParseAll([g EXCEPT !.buf = <<>>], stream, buf, B, TRUE)
             ELSE [g EXCEPT !.buf = buf]

\* End of stream in process_file_content (base.py 187-198).  The loop that
\* drains the remaining buffer (188-194) holds no batch-size test.
ContentEOF(g, stream, B) ==
    LET g1 == ParseAll([g EXCEPT !.buf = <<>>], stream, g.buf, B, FALSE)
    IN  IF g1.batch # <<>> THEN YieldBatch(g1) ELSE g1

\* `except Exception` of both generators (base.py 139-141, 200-202): the
\* error is counted and the generator ends; the pending batch is not yielded.
GenRaise(g) == [g EXCEPT !.errors = @ + 1, !.buf = <<>>, !.batch = <<>>]

\* process_file_lines, one turn of `while True` that read the lines
\* pos+1 .. hi of the stream (base.py 105-133); blank lines are skipped.
NonBlank(stream, lo, hi) ==
    LET RECURSIVE Pick(_)
        Pick(i) == IF i > hi THEN <<>>
                   ELSE IF SkippedAsEmpty(stream[i]) THEN Pick(i + 1)
                   ELSE <<i>> \o Pick(i + 1)
    IN  Pick(lo)

LinesChunk(g, stream, lo, hi, B) ==
    ParseAll(g, stream, NonBlank(stream, lo, hi), B, TRUE)

\* End of file in process_file_lines (base.py 135-137).
LinesEOF(g) == IF g.batch # <<>> THEN YieldBatch(g) ELSE g

(***************************************************************************)
(* A whole file through process_file_content and process_file_to_database. *)
(***************************************************************************)
\* process_file_content run to exhaustion from line pos + 1 on.
RECURSIVE ContentRun(_, _, _, _, _)
ContentRun(g, stream, pos, C, B) ==
    IF pos = Len(stream) THEN ContentEOF(g, stream, B)
    ELSE IF stream[pos + 1] = "raise" THEN GenRaise(g)
    ELSE ContentRun(ContentLine(g, stream, pos + 1, C, B), stream, pos + 1, C, B)

RECURSIVE SumLen(_)
SumLen(batches) ==
    IF batches = <<>> THEN 0 ELSE Len(Head(batches)) + SumLen(Tail(batches))

Records(out) == [i \in 1..Len(out) |-> out[i].records]

\* An `except` that counts the storage failure as one more error.
StorageErrorCounted(failed) == IF failed THEN 1 ELSE 0

\* What the `except` of process_file_to_database adds to the processor's
\* error count when a batch insert raised: nothing, it only logs
\* (base.py 244-247).
StorageErrorCount(failed) == 0

\* process_file_to_database (base.py 204-258).  `counters` are the processor's
\* processed_count / error_count before the call; the fail_at-th call of the
\* batch insert raises (0: none does).  The generator is consumed lazily, so a
\* raising insert leaves it suspended at that yield.
ProcessFileToDatabase(counters, stream, fail_at, C, B) ==
    LET run    == ContentRun(GenStart(counters.processed_count, counters.error_count),
                             stream, 0, C, B)
        failed == fail_at \in 1..Len(run.out)
        stop   == IF failed THEN run.out[fail_at]
                  ELSE [records |-> <<>>, processed_at |-> run.processed,
                        errors_at |-> run.errors]
        after  == [processed_count |-> stop.processed_at,
                   error_count |-> stop.errors_at + StorageErrorCount(failed)]
        final_entries == after.processed_count - counters.processed_count
        final_errors  == after.error_count - counters.error_count
    IN  [stats |-> [lines_processed |-> final_entries + final_errors,
                    entries_inserted |-> final_entries,
                    parse_errors |-> final_errors],
         counters |-> after,
         passed |-> IF failed THEN SubSeq(Records(run.out), 1, fail_at)
                    ELSE Records(run.out),
         inserted |-> IF failed THEN SubSeq(Records(run.out), 1, fail_at - 1)
                      ELSE Records(run.out),
         storage_failed |-> failed]

ZeroFileStats == [lines_processed |-> 0, entries_parsed |-> 0, parse_errors |-> 0]

\* _process_single_file (orchestrator.py 242-279) on top of
\* create_file_iterator_from_path (discovery.py 332-350): a file that cannot
\* be opened makes the iterator yield nothing, so the loop body never runs.
ProcessSingleFile(counters, file, C, B) ==
    IF ~file.openable
    THEN [file_stats |-> ZeroFileStats, counters |-> counters,
          passed |-> <<>>, inserted |-> <<>>, storage_failed |-> FALSE]
    ELSE LET r == ProcessFileToDatabase(counters, file.stream, file.fail_at, C, B)
         IN  [file_stats |-> [lines_processed |-> r.stats.lines_processed,
                              entries_parsed |-> r.stats.entries_inserted,
                              parse_errors |-> r.stats.parse_errors],
              counters |-> r.counters,
              passed |-> r.passed, inserted |-> r.inserted,
              storage_failed |-> r.storage_failed]

\* A file the orchestrator counts as failed: it could not be opened, reading
\* it raised, or a batch insert raised.
FileFailed(file, r) ==
    \/ ~file.openable
    \/ \E i \in 1..Len(file.stream) : file.stream[i] = "raise"
    \/ r.storage_failed

\* A processor that hands its batches to the other family's table.
GetBatchInsertMethodOfOther(family) ==
    IF family = "nginx" THEN "db_ops.nexus.batch_insert"
    ELSE "db_ops.nginx.batch_insert"

\* get_batch_insert_method of NginxLogProcessor (nginx_processor.py 215-229)
\* and of NexusLogProcessor (nexus_processor.py 209-223).
GetBatchInsertMethod(family) ==
    IF family = "nginx" THEN "db_ops.nginx.batch_insert"
    ELSE "db_ops.nexus.batch_insert"

\* The batches process_file_content yields for the file, in order, each
\* with the processor counters at its yield (the processor is new).
FileBatches ==
    ContentRun(GenStart(0, 0), f_stream, 0, chunk_size, batch_size).out

FileIdle ==
    /\ f_family = "none"
    /\ f_stream = <<>>
    /\ f_next = 0
    /\ f_calls = <<>>
    /\ f_pc = "idle"
    /\ f_stats = [lines_processed |-> 0, entries_inserted |-> 0, parse_errors |-> 0]

(***************************************************************************)
(* LogFileDiscovery: file names, archives, lineage                         *)
(***************************************************************************)
\* The file names a walk may meet, with Path.suffix of each.
FileNames == {"outer.tar", "inner.zip", "access.log", "notes.txt"}

Suffix(name) ==
    CASE name = "outer.tar" -> ".tar"
      [] name = "inner.zip" -> ".zip"
      [] name = "access.log" -> ".log"
      [] OTHER -> ".txt"

\* _matches_patterns (discovery.py 135-146) for the pattern list
\* "*.log, *.tar, *.zip".
MatchesPatterns(name) == Suffix(name) \in {".log", ".tar", ".zip"}

\* _is_archive_file (discovery.py 148-164), for names with one suffix.
IsArchiveFile(name) == Suffix(name) \in {".tar", ".zip", ".gz"}

\* A depth test that lets the archive at the limit itself through.
DepthLimitOffByOne(depth, limit) == depth > limit

\* The depth test of _process_archive_recursive (discovery.py 179).
DepthLimitReached(depth, limit) == depth >= limit

\* A walk that remembers nothing.
AlreadyProcessedNever(file_key, processed) == FALSE

\* `if file_key in processed_files: continue` (discovery.py 117-119); a file
\* name of the model stands for the resolved absolute path of the file.
AlreadyProcessed(file_key, processed) == file_key \in processed

\* A failed extraction whose directory is walked all the same.
StackAfterFailedExtractWalked(stack, frame) == Append(stack, frame)

\* `if self._extract_archive(...)` (discovery.py 192) after a failed
\* extraction (_extract_archive printed its message and returned False,
\* discovery.py 250-256): _process_extracted_contents is not called, the
\* caller's generators go on.
StackAfterFailedExtract(stack, frame) == stack

\* A depth test that turns the archive away without a word.
WarnDepthLimitSilently(warnings) == warnings

\* The one `print("WARNING: Maximum archive depth ... reached ...")` before
\* the `return` of a blocked call (discovery.py 180).
WarnDepthLimit(warnings) == warnings + 1

\* source_desc of a direct match of the walk (discovery.py 132).
DirectLineage(log_type, name) == <<log_type, ":", name>>

\* source_desc of a file found in an extracted archive (discovery.py
\* 305-306); archive_name is the name of the archive just unpacked.
MemberLineage(log_type, archive_name, relative_path) ==
    <<log_type, ":", archive_name, "->", relative_path>>

\* LogFileDiscovery.__init__ (discovery.py 35-45) as the orchestrator calls
\* it, `LogFileDiscovery(settings)` (orchestrator.py 95): the depth argument
\* is left to its default.
OrchestratorDiscoveryDepth(s) == DefaultMaxArchiveDepth

NoEvent == [kind |-> "none", depth |-> 0, name |-> "", lineage |-> <<>>,
            chain |-> <<>>]

Event(kind, depth, name, lineage, chain) ==
    [kind |-> kind, depth |-> depth, name |-> name, lineage |-> lineage,
     chain |-> chain]

\* The depth at which, and the containers (outermost first) under which, the
\* files reported next are found.
TopFrame == d_stack[Len(d_stack)]
AtTop == d_stack = <<>>

(***************************************************************************)
(* File names by their parts: _is_archive_file and the format dispatch of  *)
(* _extract_archive                                                        *)
(***************************************************************************)
\* A file name is "access" followed by dot-separated parts: <<"log", "tar",
\* "gz">> is access.log.tar.gz.  Path.suffix is the last part (with its
\* dot), Path.suffixes are all of them.
NameParts == {"log", "tar", "gz", "bz2", "zip", "TAR", "Zip"}

\* str.lower() of a part.
LowerPart(t) ==
    CASE t = "TAR" -> "tar"
      [] t = "Zip" -> "zip"
      [] OTHER -> t

LowerParts(parts) == [i \in 1..Len(parts) |-> LowerPart(parts[i])]

\* Path.suffix: the last part, "" for a name without a dot.
PathSuffix(parts) == IF parts = <<>> THEN "" ELSE parts[Len(parts)]

\* name.endswith('.tar.gz'), case-sensitive; the stem "access" is not "tar".
EndsWithTarGz(parts) ==
    /\ Len(parts) >= 2
    /\ parts[Len(parts) - 1] = "tar"
    /\ parts[Len(parts)] = "gz"

\* _is_archive_file (discovery.py 148-164): the lower-cased last suffix, or
\* all suffixes joined and lower-cased.
IsArchiveFileParts(parts) ==
    \/ LowerPart(PathSuffix(parts)) \in {"tar", "zip", "gz"}
    \/ LowerParts(parts) \in {<<"tar", "gz">>, <<"tar", "bz2">>}

\* The format dispatch of _extract_archive (discovery.py 213-252): all
\* suffixes joined and lower-cased, then the last suffix as it is written.
ArchiveHandler(parts) ==
    IF LowerParts(parts) \in {<<"tar", "gz">>, <<"tar", "bz2">>} \/ PathSuffix(parts) = "tar"
    THEN "tar"
    ELSE IF PathSuffix(parts) = "zip" THEN "zip"
    ELSE IF PathSuffix(parts) = "gz" /\ ~EndsWithTarGz(parts) THEN "gz"
    ELSE "unsupported"

ClaIdle ==
    /\ c_name = <<>>
    /\ c_pc = "idle"
    /\ c_handler = "none"

(***************************************************************************)
(* LogFileDiscovery.cleanup_temp_dirs                                      *)
(***************************************************************************)
DirKinds == {"removable", "undeletable", "missing"}

\* A cleanup that lets the exception of rmtree out.
RmtreeFailureRaises(pc) == "raised"

\* `except Exception as e: print(WARNING ...)` around one directory
\* (discovery.py 322-323): the loop goes on.
RmtreeFailureCaught(pc) == pc

ClnIdle ==
    /\ r_kinds = <<>>
    /\ r_temp_dirs = <<>>
    /\ r_pos = 0
    /\ r_attempted = <<>>
    /\ r_removed = {}
    /\ r_warned = {}
    /\ r_pc = "idle"

(***************************************************************************)
(* BaseLogDatabase.get_session and batch_insert                            *)
(***************************************************************************)
EntryKinds == {"ok", "null", "nondict"}

\* entry.get(...) and the model constructor (nginx_database.py 40-55): they
\* raise for an entry that is no dict; a dict with a missing value is built.
Buildable(kind) == kind # "nondict"

\* session.flush() (nginx_database.py 62): the INSERTs are sent; a NULL in a
\* NOT NULL column (models.py 32-45) is refused by the database.
FlushAccepts(log_data, logs) == \A i \in 1..Len(logs) : log_data[logs[i]] = "ok"

\* A rollback that leaves the first pending row in the table.
RowsKeptByPartialRollback(pending) == SubSeq(pending, 1, Min(1, Len(pending)))

\* session.rollback() in get_session (base.py 37-40): none of the pending
\* rows stays.
RowsKeptByRollback(pending) == <<>>

InsIdle ==
    /\ b_log_data = <<>>
    /\ b_before = <<>>
    /\ b_table = <<>>
    /\ b_pos = 0
    /\ b_logs = <<>>
    /\ b_session = <<>>
    /\ b_result = -1
    /\ b_rolled_back = FALSE
    /\ b_closed = FALSE
    /\ b_pc = "idle"

(***************************************************************************)
(* LogAnalysisMCPServer: start, stop and the server thread (network mode)  *)
(***************************************************************************)
SrvIdle ==
    /\ m_running = FALSE
    /\ m_caller = "idle"
    /\ m_thread = "none"
    /\ m_ticks = 0
    /\ m_stops = 0
    /\ m_start_log = "none"

(***************************************************************************)
(* NexusLogProcessor: the end of the request-log pattern                   *)
(***************************************************************************)
\* What may follow processing_time_ms: "sp" one space, "ua" a quoted string
\* "...", "th" a bracketed string [...], "nl" a newline, "x" any other
\* character.
TailTokens == {"sp", "ua", "th", "nl", "x"}

NoNexusFields == [user_agent |-> "null", thread_info |-> "null"]

\* The end of apache_style_pattern (nexus_processor.py 74-76),
\*     (?: "(?P<user_agent>[^"]*)")? (?:\[(?P<thread_info>[^\]]+)\])?
\* applied with pattern.match: the optional user-agent group is tried first,
\* then without it; the space between the two groups is not optional;
\* whatever follows the match is ignored.
MatchNexusTail(tail) ==
    LET ThreadAt(i) == IF Len(tail) >= i /\ tail[i] = "th" THEN "th" ELSE "null"
    IN  IF Len(tail) >= 3 /\ tail[1] = "sp" /\ tail[2] = "ua" /\ tail[3] = "sp"
        THEN [matched |-> TRUE, user_agent |-> "ua", thread_info |-> ThreadAt(4)]
        ELSE IF Len(tail) >= 1 /\ tail[1] = "sp"
        THEN [matched |-> TRUE, user_agent |-> "null", thread_info |-> ThreadAt(2)]
        ELSE [matched |-> FALSE, user_agent |-> "null", thread_info |-> "null"]

NexIdle ==
    /\ n_tail = <<>>
    /\ n_pc = "idle"
    /\ n_record = NoNexusFields

(***************************************************************************)
(* NginxLogProcessor._parse_request_field                                  *)
(***************************************************************************)
\* A request string is a sequence of tokens, each standing for the
\* characters it names: "SSH-", "{", "method", "sp" (one space), "HTTP/",
\* "GET" (an ordinary word), "bin" (one character below 32 or above 126)
\* and "x25" (25 ordinary characters).
RequestTokens == {"SSH-", "{", "method", "sp", "HTTP/", "GET", "bin", "x25"}

TokenLen(t) ==
    CASE t = "SSH-" -> 4
      [] t = "{" -> 1
      [] t = "method" -> 6
      [] t = "sp" -> 1
      [] t = "HTTP/" -> 5
      [] t = "GET" -> 3
      [] t = "bin" -> 1
      [] OTHER -> 25

\* len(request_str)
RECURSIVE CharLen(_)
CharLen(req) == IF req = <<>> THEN 0 ELSE TokenLen(Head(req)) + CharLen(Tail(req))

\* The positions of the spaces of the string.
Spaces(req) == {i \in 1..Len(req) : req[i] = "sp"}

\* The least element of a non-empty set of numbers.
Least(S) == CHOOSE i \in S : \A j \in S : i <= j

\* request_str.split(' ', 2) has three parts: the string has two spaces.
HasThreeParts(req) == Cardinality(Spaces(req)) >= 2

\* The parts of split(' ', 2) when there are three: up to the first space,
\* between the first two spaces, and the rest.
SplitParts(req) ==
    LET first  == Least(Spaces(req))
        second == Least(Spaces(req) \ {first})
    IN  <<SubSeq(req, 1, first - 1), SubSeq(req, first + 1, second - 1),
          SubSeq(req, second + 1, Len(req))>>

\* str.startswith for a prefix that is one token.
StartsWithToken(req, t) == req # <<>> /\ req[1] = t

\* `'method' in request_str`, `any(ord(c) < 32 or ord(c) > 126 ...)`.
ContainsToken(req, t) == \E i \in 1..Len(req) : req[i] = t

\* The request parses as "METHOD path HTTP/version"
\* (nginx_processor.py 162-168).
IsHttpRequest(req) ==
    HasThreeParts(req) /\ StartsWithToken(SplitParts(req)[3], "HTTP/")

\* `request_str.startswith('{') or 'method' in request_str`
\* (nginx_processor.py 174).
LooksLikeJson(req) == StartsWithToken(req, "{") \/ ContainsToken(req, "method")

\* `request_str[:50] + '...' if len(request_str) > 50 else request_str`
\* (nginx_processor.py 175, 181): the form and the length of the path.
Truncated(req) ==
    IF CharLen(req) > PathKeep
    THEN [form |-> "cut", len |-> PathKeep + EllipsisLen]
    ELSE [form |-> "as_written", len |-> CharLen(req)]

\* _parse_request_field (nginx_processor.py 146-186).  For an HTTP request
\* the method and the version are the first and the third part as written.
ParseRequestField(req) ==
    IF IsHttpRequest(req)
    THEN [method |-> "METHOD", path |-> [form |-> "as_written",
                                        len |-> CharLen(SplitParts(req)[2])],
          http_version |-> "VERSION"]
    ELSE IF StartsWithToken(req, "SSH-")
    THEN [method |-> "SSH-ATTEMPT", path |-> [form |-> "as_written", len |-> CharLen(req)],
          http_version |-> "NON-HTTP"]
    ELSE IF LooksLikeJson(req)
    THEN [method |-> "JSON-RPC", path |-> Truncated(req), http_version |-> "NON-HTTP"]
    ELSE IF ContainsToken(req, "bin")
    THEN [method |-> "BINARY-DATA", path |-> [form |-> "[BINARY]", len |-> BinaryMarkLen],
          http_version |-> "NON-HTTP"]
    ELSE [method |-> "MALFORMED", path |-> Truncated(req), http_version |-> "NON-HTTP"]

NoRequestResult == [method |-> "", path |-> [form |-> "", len |-> 0], http_version |-> ""]

ReqIdle ==
    /\ g_request = <<>>
    /\ g_pc = "idle"
    /\ g_result = NoRequestResult

(***************************************************************************)
(* parse_log_line of NginxLogProcessor and NexusLogProcessor               *)
(***************************************************************************)
\* A line is told by how it meets the pattern ("match", "nomatch", or
\* "notstr": no string at all, pattern.match raises), by its timestamp
\* ("valid", "invalid": strptime raises ValueError, "error": it raises
\* something else), by its status digits ("int", or "toolong": int() raises
\* ValueError) and by its response size ("int", "dash", "junk").
Lines ==
    [shape : {"match", "nomatch", "notstr"},
     timestamp : {"valid", "invalid", "error"},
     status : {"int", "toolong"},
     size : {"int", "dash", "junk"}]

\* _parse_timestamp (nginx_processor.py 188-213, nexus_processor.py
\* 155-191): a datetime, or None on ValueError.
ParseTimestamp(kind) == IF kind = "valid" THEN "set" ELSE "null"

\* _parse_status_code (base.py 298-314): an int, or None on ValueError.
ParseStatusCode(kind) == IF kind = "int" THEN "set" ELSE "null"

\* _parse_size_field (base.py 278-296, nexus_processor.py 194-207): an int,
\* or None for '-' and for anything int() refuses.
ParseSizeField(kind) == IF kind = "int" THEN "set" ELSE "null"

\* A parser that does not look at the timestamp it got.
TimestampMissingIgnored(timestamp) == FALSE

\* `if not timestamp: return None` (nginx_processor.py 108-110,
\* nexus_processor.py 112-114); a datetime is never false.
TimestampMissing(timestamp) == timestamp = "null"

ReturnedNone == [kind |-> "None", timestamp |-> "null", status_code |-> "null",
                 response_size |-> "null"]

NothingReturned == [kind |-> "nothing", timestamp |-> "null", status_code |-> "null",
                    response_size |-> "null"]

ParIdle ==
    /\ y_family = "none"
    /\ y_line = [shape |-> "nomatch", timestamp |-> "invalid", status |-> "toolong",
                 size |-> "dash"]
    /\ y_pc = "idle"
    /\ y_timestamp = "unset"
    /\ y_result = NothingReturned

(***************************************************************************)
(* LogFileDiscovery._extract_archive and _is_safe_path                     *)
(***************************************************************************)
\* Member names are sequences of characters: "a" and "d" stand for ordinary
\* characters, the others for themselves.
MemberNames ==
    { <<"a">>,                                \* a
      <<"d", "/", "a">>,                      \* d/a
      <<".", ".", "/", "a">>,                 \* ../a
      <<"d", "/", ".", ".", "/", "a">>,       \* d/../a
      <<"/", "a">>,                           \* /a
      <<"a", ".", ".", "a">>,                 \* a..a
      <<"a", "\\", "a">>,                     \* a\a
      <<"a", "\\", "\\", "a">> }              \* a\\a

\* os.path.isabs(path) (posixpath) and path.startswith('/').
IsAbs(path) == path # <<>> /\ path[1] = "/"
StartsWithSlash(path) == path # <<>> /\ path[1] = "/"

\* '..' in path: two dots side by side anywhere in the name.
ContainsDotDot(path) ==
    \E i \in 1..(Len(path) - 1) : path[i] = "." /\ path[i + 1] = "."

\* path.replace('\\\\', ''): pairs of backslashes are removed, left to right.
RECURSIVE RemoveEscapedBackslashes(_)
RemoveEscapedBackslashes(path) ==
    IF path = <<>> THEN <<>>
    ELSE IF Len(path) >= 2 /\ path[1] = "\\" /\ path[2] = "\\"
    THEN RemoveEscapedBackslashes(SubSeq(path, 3, Len(path)))
    ELSE <<path[1]>> \o RemoveEscapedBackslashes(Tail(path))

ContainsBackslash(path) == \E i \in 1..Len(path) : path[i] = "\\"

\* A path test that forgets the '..' clause.
IsSafePathWithoutDotDot(path) ==
    ~ \/ IsAbs(path)
      \/ StartsWithSlash(path)
      \/ ContainsBackslash(RemoveEscapedBackslashes(path))

\* _is_safe_path (discovery.py 258-273).
IsSafePath(path) ==
    ~ \/ IsAbs(path)
      \/ ContainsDotDot(path)
      \/ StartsWithSlash(path)
      \/ ContainsBackslash(RemoveEscapedBackslashes(path))

ExtIdle ==
    /\ x_kind = "none"
    /\ x_members = <<>>
    /\ x_pos = 0
    /\ x_extracted = <<>>
    /\ x_warned = <<>>
    /\ x_pc = "idle"

(***************************************************************************)
(* SQL queries: CommonLogDatabase.execute_query, MCPTools._is_select_query *)
(* and the /api/execute-query route                                        *)
(***************************************************************************)
\* A query text is a sequence of tokens; " " is whitespace, "x" a column,
\* "x_limit" a column whose name holds the letters "limit", "3" a numeral.
Queries ==
    { <<"SELECT", "x">>,
      <<" ", "select", "x", ";">>,
      <<"SELECT", "x", "LIMIT", "3">>,
      <<"SELECT", "x_limit">>,
      <<"DROP", "x">>,
      <<"SELECT", "x", ";", "DROP", "x">>,
      <<"SELECT", "x", ";", "SELECT", "x">>,
      <<"SELECTED", "x">>,
      <<" ">>,
      <<>> }

\* str.upper() of one token.
UpperToken(t) ==
    CASE t = "select" -> "SELECT"
      [] t = "x" -> "X"
      [] t = "x_limit" -> "X_LIMIT"
      [] OTHER -> t

Upper(q) == [i \in 1..Len(q) |-> UpperToken(q[i])]

\* str.strip(): whitespace is dropped at both ends.
RECURSIVE LStrip(_)
LStrip(q) == IF q # <<>> /\ Head(q) = " " THEN LStrip(Tail(q)) ELSE q

RECURSIVE RStrip(_, _)
RStrip(q, c) ==
    IF q # <<>> /\ q[Len(q)] = c THEN RStrip(SubSeq(q, 1, Len(q) - 1), c) ELSE q

Strip(q) == RStrip(LStrip(q), " ")

\* Tokens whose text begins with the letters SELECT / holds the letters LIMIT.
TokenStartsWithSelect(t) == t \in {"SELECT", "SELECTED"}
TokenContainsLimit(t) == t \in {"LIMIT", "X_LIMIT"}

\* `query.strip().upper().startswith("SELECT")` (database/base.py 91-92,
\* web/routes.py 171-172).
StartsWithSelect(q) ==
    LET u == Strip(Upper(q)) IN u # <<>> /\ TokenStartsWithSelect(u[1])

\* `'LIMIT' in query_stripped` (database/base.py 98): a substring test.
ContainsLimit(q) == \E i \in 1..Len(q) : TokenContainsLimit(UpperToken(q[i]))

\* A keyword of the forbidden list of the web route as a substring
\* (web/routes.py 179-186).
ContainsForbiddenKeyword(q) == \E i \in 1..Len(q) : UpperToken(q[i]) = "DROP"

NumeralOf(n) ==
    CASE n = 1 -> "1" [] n = 2 -> "2" [] n = 3 -> "3" [] n = 4 -> "4"
      [] n = 100 -> "100" [] OTHER -> "1000"

ValueOf(t) ==
    CASE t = "1" -> 1 [] t = "2" -> 2 [] t = "3" -> 3 [] t = "4" -> 4
      [] t = "100" -> 100 [] OTHER -> 1000

\* `f"{query.rstrip(';')} LIMIT {limit}"` (database/base.py 99).
WithLimit(q, n) == RStrip(q, ";") \o <<" ", "LIMIT", NumeralOf(n)>>

\* The text execute_query gives to session.execute (database/base.py 97-101).
TextToExecute(q, limit) ==
    IF limit # 0 /\ ~ContainsLimit(Upper(q)) THEN WithLimit(q, limit) ELSE q

\* sqlparse.parse: the statements of a text, each up to and with its ";".
RECURSIVE SplitStatements(_, _)
SplitStatements(q, cur) ==
    IF q = <<>> THEN (IF cur = <<>> THEN <<>> ELSE <<cur>>)
    ELSE IF Head(q) = ";"
    THEN <<Append(cur, ";")>> \o SplitStatements(Tail(q), <<>>)
    ELSE SplitStatements(Tail(q), Append(cur, Head(q)))

\* The first token of a statement that is not whitespace; "" if none.
FirstToken(st) == LET r == LStrip(st) IN IF r = <<>> THEN "" ELSE r[1]

\* _is_select_query (mcp/tools.py 225-276).
IsSelectQuery(q) ==
    /\ Strip(q) # <<>>
    /\ LET sts == SplitStatements(q, <<>>)
       IN  \A i \in 1..Len(sts) :
              FirstToken(sts[i]) = "" \/ UpperToken(FirstToken(sts[i])) = "SELECT"

\* What the SQLite session does with a text: one SELECT statement is run,
\* anything else raises.
RunsAsSelect(text) ==
    LET sts == SplitStatements(Strip(text), <<>>)
    IN  Len(sts) = 1 /\ UpperToken(FirstToken(sts[1])) = "SELECT"

\* The value of the LIMIT clause of a text, 0 if it has none.
LimitClause(text) ==
    IF \E i \in 1..(Len(text) - 1) : UpperToken(text[i]) = "LIMIT"
    THEN ValueOf(text[(CHOOSE i \in 1..(Len(text) - 1) : UpperToken(text[i]) = "LIMIT") + 1])
    ELSE 0

\* result.fetchall() (database/base.py 101-105): every row the statement
\* selects, cut by its LIMIT clause if it has one.
RowsFetched(text, rows) ==
    IF LimitClause(text) = 0 THEN rows ELSE Min(rows, LimitClause(text))

QryIdle ==
    /\ q_surface = "none"
    /\ q_query = <<>>
    /\ q_limit = 0
    /\ q_rows = 0
    /\ q_pc = "idle"
    /\ q_sent = <<>>
    /\ q_returned = 0

(***************************************************************************)
(* Spec: LogProcessingOrchestrator.process_all_logs                        *)
(***************************************************************************)
Families == <<"nginx", "nexus">>

ZeroStats == [files_processed |-> 0, lines_processed |-> 0,
              entries_parsed |-> 0, parse_errors |-> 0]

NoFile == [family |-> "none", id |-> 0, openable |-> TRUE, stream |-> <<>>,
           fail_at |-> 0, file_stats |-> ZeroFileStats, passed |-> <<>>,
           inserted |-> <<>>, storage_failed |-> FALSE]

\* The contents of the files of an ingestion run: an empty file, a line that
\* parses, one that does not, a read error at once, two lines that parse, a
\* parse failure after a parsed line, a read error after a parsed line.
\* Blank lines are left to SpecProc: process_file_content drops them before
\* anything is counted.
FileStreams ==
    {<<>>, <<"ok">>, <<"bad">>, <<"raise">>,
     <<"ok", "ok">>, <<"ok", "bad">>, <<"ok", "raise">>}

\* The files a discovery may hand over, each with what reading and storing it
\* will do: the fail_at-th batch insert raises.  The content of a file that
\* cannot be opened is never read, so one such file stands for all.
Files ==
    {[openable |-> FALSE, stream |-> <<>>, fail_at |-> 0]}
    \cup [openable : {TRUE}, stream : FileStreams, fail_at : 0..1]

\* `stats[...] += file_stats[...]` after a file (orchestrator.py 220-224).
AddFileStats(stats, fs) ==
    [files_processed |-> stats.files_processed + 1,
     lines_processed |-> stats.lines_processed + fs.lines_processed,
     entries_parsed |-> stats.entries_parsed + fs.entries_parsed,
     parse_errors |-> stats.parse_errors + fs.parse_errors]

\* The loop variant that gives up on the family at the first failed file.
NextFileIndexAbort(idx, n, failed) == IF failed THEN n + 1 ELSE idx + 1

\* The `for ... in log_files` loop moves to the next file whether or not the
\* file failed: every failure is caught per file (orchestrator.py 212-232).
NextFileIndex(idx, n, failed) == idx + 1

\* A family that removes its temp directories as soon as its files are done.
DirsClearedAtFamilyEnd(dirs) == <<>>

\* _process_logs_by_type returns its stats and leaves the discovery's temp
\* directories alone (orchestrator.py 237-240); they stay registered for
\* the rest of the run.
DirsAtFamilyEnd(dirs) == dirs

\* A discovery consumed lazily: an archive is unpacked only when the loop
\* asks for its first file.
DirsAfterLazyDiscovery(dirs, unpacked) == dirs

\* `log_files = list(discovery_method())` (orchestrator.py 204) runs the
\* whole walk, every extraction included, before the file loop starts: an
\* archive the walk unpacked at depth 0 is registered when the list is built.
DirsAfterDiscovery(dirs, unpacked) == IF unpacked THEN Append(dirs, 0) ELSE dirs

\* A discovery failure that is not caught.
DiscoveryFailurePropagates == FALSE

\* `except Exception` around the discovery and the loop
\* (orchestrator.py 202, 234-235).
DiscoveryFailureCaught == TRUE

\* A cleanup placed after the summary instead of in a `finally`.
CleanupOnReturnOnly(raised) == ~raised

\* `finally: self.file_discovery.cleanup_temp_dirs()` runs on both exits of
\* process_all_logs (orchestrator.py 148-150).
FinallyRuns(raised) == TRUE

\* LogProcessingOrchestrator.__init__ (orchestrator.py 85-108) and
\* ProcessingStatistics.__init__ (30-46).
InitOrch ==
    /\ settings \in [chunk_size : {1, DefaultChunkSize},
                     max_archive_depth : {DefaultMaxArchiveDepth}]
    /\ chunk_size = settings.chunk_size
    /\ batch_size = OrchestratorBatchSize
    /\ o_pc = "start"
    /\ o_family = "nginx"
    /\ log_files = <<>>
    /\ o_origin = <<>>
    /\ o_idx = 1
    /\ o_stats = ZeroStats
    /\ statistics = [nginx |-> ZeroStats, nexus |-> ZeroStats,
                     overall_start_time |-> "None", overall_end_time |-> "None"]
    /\ processors = [f \in {"nginx", "nexus"} |->
                        [processed_count |-> 0, error_count |-> 0]]
    /\ temp_dirs = <<>>
    /\ handed = <<>>
    /\ families = <<>>
    /\ cleanup_calls = 0
    /\ o_result = "none"
    /\ o_exception = "None"
    /\ last_file = NoFile

\* process_all_logs up to the first family (orchestrator.py 119-128).
StartProcessing ==
    /\ o_pc = "start"
    /\ statistics' = [statistics EXCEPT !.overall_start_time = "set"]
    /\ o_pc' = "discover"
    /\ UNCHANGED <<settings, o_family, log_files, o_origin, o_idx, o_stats, processors,
                   temp_dirs, handed, families, cleanup_calls, o_result, o_exception,
                   last_file>>
    /\ UNCHANGED <<procVars, discVars, extVars, qryVars, fileVars, claVars, clnVars, insVars, srvVars, nexVars, reqVars, parVars>>

\* `log_files = list(discovery_method())` returns n files
\* (orchestrator.py 192-209); the walk may have unpacked an archive and
\* registered its temp directory.  The files are direct ones, followed by
\* at most one found in the archive.
DiscoverFiles ==
    /\ o_pc = "discover"
    /\ \E n \in 0..MaxFiles, unpacked \in BOOLEAN :
         /\ log_files' = [i \in 1..n |-> i]
         /\ \E archived \in 0..(IF unpacked /\ n > 0 THEN 1 ELSE 0) :
              o_origin' = [i \in 1..n |-> IF i > n - archived
                                          THEN Len(temp_dirs) + 1 ELSE 0]
         /\ temp_dirs' = DirsAfterDiscovery(temp_dirs, unpacked)
    /\ o_stats' = ZeroStats
    /\ o_idx' = 1
    /\ handed' = <<>>
    /\ o_pc' = "files"
    /\ UNCHANGED <<settings, o_family, statistics, processors, families,
                   cleanup_calls, o_result, o_exception, last_file>>
    /\ UNCHANGED <<procVars, discVars, extVars, qryVars, fileVars, claVars, clnVars, insVars, srvVars, nexVars, reqVars, parVars>>

\* The discovery raises while the list is being built.
DiscoveryFails ==
    /\ o_pc = "discover"
    /\ \E unpacked \in BOOLEAN :
         temp_dirs' = DirsAfterDiscovery(temp_dirs, unpacked)
    /\ log_files' = <<>>
    /\ o_origin' = <<>>
    /\ o_stats' = ZeroStats
    /\ o_idx' = 1
    /\ handed' = <<>>
    /\ IF DiscoveryFailureCaught
       THEN /\ o_pc' = "files"
            /\ UNCHANGED <<statistics, o_result, o_exception>>
       ELSE /\ o_pc' = "finally"
            /\ statistics' = [statistics EXCEPT !.overall_end_time = "set"]
            /\ o_result' = "raised"
            /\ o_exception' = "discovery"
    /\ UNCHANGED <<settings, o_family, processors, families,
                   cleanup_calls, last_file>>
    /\ UNCHANGED <<procVars, discVars, extVars, qryVars, fileVars, claVars, clnVars, insVars, srvVars, nexVars, reqVars, parVars>>

\* One turn of the file loop: _process_single_file and the stats update
\* (orchestrator.py 212-232).
ProcessFile ==
    /\ o_pc = "files"
    /\ o_idx <= Len(log_files)
    /\ \E file \in Files :
         LET r == ProcessSingleFile(processors[o_family], file, chunk_size, batch_size)
         IN  /\ processors' = [processors EXCEPT ![o_family] = r.counters]
             /\ o_stats' = AddFileStats(o_stats, r.file_stats)
             /\ o_idx' = NextFileIndex(o_idx, Len(log_files), FileFailed(file, r))
             /\ handed' = Append(handed, log_files[o_idx])
             /\ last_file' = [family |-> o_family, id |-> log_files[o_idx],
                              openable |-> file.openable, stream |-> file.stream,
                              fail_at |-> file.fail_at, file_stats |-> r.file_stats,
                              passed |-> r.passed, inserted |-> r.inserted,
                              storage_failed |-> r.storage_failed]
    /\ UNCHANGED <<settings, o_pc, o_family, log_files, o_origin, statistics, temp_dirs,
                   families, cleanup_calls, o_result, o_exception>>
    /\ UNCHANGED <<procVars, discVars, extVars, qryVars, fileVars, claVars, clnVars, insVars, srvVars, nexVars, reqVars, parVars>>

\* _process_logs_by_type returns and its stats are stored
\* (orchestrator.py 237-240, 128-134).
FinishFamily ==
    /\ o_pc = "files"
    /\ o_idx > Len(log_files)
    /\ statistics' = [statistics EXCEPT ![o_family] = o_stats]
    /\ families' = Append(families, o_family)
    /\ IF o_family = "nginx"
       THEN o_family' = "nexus" /\ o_pc' = "discover"
       ELSE o_family' = o_family /\ o_pc' = "finalize"
    /\ last_file' = NoFile
    /\ temp_dirs' = DirsAtFamilyEnd(temp_dirs)
    /\ UNCHANGED <<settings, log_files, o_origin, o_idx, o_stats, processors,
                   handed, cleanup_calls, o_result, o_exception>>
    /\ UNCHANGED <<procVars, discVars, extVars, qryVars, fileVars, claVars, clnVars, insVars, srvVars, nexVars, reqVars, parVars>>

\* end_processing, the summary, `return self.statistics`
\* (orchestrator.py 136-141).
FinishRun ==
    /\ o_pc = "finalize"
    /\ statistics' = [statistics EXCEPT !.overall_end_time = "set"]
    /\ o_result' = "returned"
    /\ o_pc' = "finally"
    /\ UNCHANGED <<settings, o_family, log_files, o_origin, o_idx, o_stats, processors,
                   temp_dirs, handed, families, cleanup_calls, o_exception,
                   last_file>>
    /\ UNCHANGED <<procVars, discVars, extVars, qryVars, fileVars, claVars, clnVars, insVars, srvVars, nexVars, reqVars, parVars>>

\* Writing the summary raises (stdout is closed): the `except` records the
\* end time and re-raises (orchestrator.py 139, 143-146).
SummaryFails ==
    /\ o_pc = "finalize"
    /\ statistics' = [statistics EXCEPT !.overall_end_time = "set"]
    /\ o_result' = "raised"
    /\ o_exception' = "summary"
    /\ o_pc' = "finally"
    /\ UNCHANGED <<settings, o_family, log_files, o_origin, o_idx, o_stats, processors,
                   temp_dirs, handed, families, cleanup_calls, last_file>>
    /\ UNCHANGED <<procVars, discVars, extVars, qryVars, fileVars, claVars, clnVars, insVars, srvVars, nexVars, reqVars, parVars>>

\* The `finally` of process_all_logs and cleanup_temp_dirs
\* (orchestrator.py 148-150; discovery.py 309-325).
Cleanup ==
    /\ o_pc = "finally"
    /\ IF FinallyRuns(o_result = "raised")
       THEN cleanup_calls' = cleanup_calls + 1 /\ temp_dirs' = <<>>
       ELSE UNCHANGED <<cleanup_calls, temp_dirs>>
    /\ o_pc' = "done"
    /\ UNCHANGED <<settings, o_family, log_files, o_origin, o_idx, o_stats, statistics,
                   processors, handed, families, o_result, o_exception, last_file>>
    /\ UNCHANGED <<procVars, discVars, extVars, qryVars, fileVars, claVars, clnVars, insVars, srvVars, nexVars, reqVars, parVars>>

Next ==
    \/ StartProcessing
    \/ DiscoverFiles
    \/ DiscoveryFails
    \/ ProcessFile
    \/ FinishFamily
    \/ FinishRun
    \/ SummaryFails
    \/ Cleanup

ProcIdle ==
    /\ p_mode = "none"
    /\ p_stream = <<>>
    /\ p_pos = 0
    /\ p_gen = GenStart(0, 0)
    /\ p_pc = "idle"

OrchIdle ==
    /\ settings = [chunk_size |-> chunk_size, max_archive_depth |-> DefaultMaxArchiveDepth]
    /\ o_pc = "idle"
    /\ o_family = "none"
    /\ log_files = <<>>
    /\ o_origin = <<>>
    /\ o_idx = 1
    /\ o_stats = ZeroStats
    /\ statistics = [nginx |-> ZeroStats, nexus |-> ZeroStats,
                     overall_start_time |-> "None", overall_end_time |-> "None"]
    /\ processors = [f \in {"nginx", "nexus"} |->
                        [processed_count |-> 0, error_count |-> 0]]
    /\ temp_dirs = <<>>
    /\ handed = <<>>
    /\ families = <<>>
    /\ cleanup_calls = 0
    /\ o_result = "none"
    /\ o_exception = "None"
    /\ last_file = NoFile

DiscIdle ==
    /\ d_owner = "none"
    /\ max_archive_depth = DefaultMaxArchiveDepth
    /\ d_pc = "idle"
    /\ d_walked = 0
    /\ processed_files = {}
    /\ d_stack = <<>>
    /\ d_archives = 0
    /\ d_last = NoEvent
    /\ d_warnings = 0
    /\ d_errors = 0

Init == InitOrch /\ ProcIdle /\ DiscIdle /\ ExtIdle /\ QryIdle /\ FileIdle /\ ClaIdle /\ ClnIdle /\ InsIdle /\ SrvIdle /\ NexIdle /\ ReqIdle /\ ParIdle

Spec == Init /\ [][Next]_vars

\* process_all_logs is one sequential call: each of its steps is taken once
\* it is enabled.
FairSpec == Init /\ [][Next]_vars /\ WF_vars(Next)

(***************************************************************************)
(* SpecDisc: one walk of discover_nginx_files                              *)
(***************************************************************************)
InitDisc ==
    /\ d_owner \in {"orchestrator", "direct"}
    /\ \E n \in 1..MaxDepth :
         IF d_owner = "orchestrator"
         THEN /\ settings = [chunk_size |-> DefaultChunkSize, max_archive_depth |-> n]
              /\ max_archive_depth = OrchestratorDiscoveryDepth(settings)
         ELSE /\ settings = [chunk_size |-> DefaultChunkSize,
                             max_archive_depth |-> DefaultMaxArchiveDepth]
              /\ max_archive_depth = n
    /\ d_pc = "walk"
    /\ d_walked = 0
    /\ processed_files = {}
    /\ d_stack = <<>>
    /\ d_archives = 0
    /\ d_last = NoEvent
    /\ d_warnings = 0
    /\ d_errors = 0
    /\ chunk_size = settings.chunk_size
    /\ batch_size = OrchestratorBatchSize
    /\ ProcIdle
    /\ o_pc = "idle"
    /\ o_family = "nginx"
    /\ log_files = <<>>
    /\ o_origin = <<>>
    /\ o_idx = 1
    /\ o_stats = ZeroStats
    /\ statistics = [nginx |-> ZeroStats, nexus |-> ZeroStats,
                     overall_start_time |-> "None", overall_end_time |-> "None"]
    /\ processors = [f \in {"nginx", "nexus"} |->
                        [processed_count |-> 0, error_count |-> 0]]
    /\ temp_dirs = <<>>
    /\ handed = <<>>
    /\ families = <<>>
    /\ cleanup_calls = 0
    /\ o_result = "none"
    /\ o_exception = "None"
    /\ last_file = NoFile
    /\ ExtIdle
    /\ QryIdle
    /\ FileIdle
    /\ ClaIdle
    /\ ClnIdle
    /\ InsIdle
    /\ SrvIdle
    /\ NexIdle
    /\ ReqIdle
    /\ ParIdle

DiscFrame ==
    UNCHANGED <<procVars, extVars, qryVars, fileVars, parVars, reqVars, nexVars, srvVars, insVars, clnVars, claVars, settings, o_pc, o_family, log_files,
                o_origin, o_idx, o_stats, statistics, processors, handed,
                families, cleanup_calls, o_result, o_exception, last_file,
                d_owner, max_archive_depth>>

\* _process_archive_recursive (discovery.py 166-199) called for the archive
\* `name` at `depth`, found under the containers `chain`, by a caller whose
\* generators are `stack`: the call is turned
\* away at the depth limit, or a temp directory is registered and the archive
\* unpacked, which may fail (_extract_archive returns False or raises).
ProcessArchiveRecursive(name, depth, chain, stack) ==
    /\ d_archives' = d_archives + 1
    /\ IF DepthLimitReached(depth, max_archive_depth)
       THEN /\ d_last' = Event("blocked", depth, name, <<>>, chain)
            /\ d_warnings' = WarnDepthLimit(d_warnings)
            /\ d_stack' = stack
            /\ UNCHANGED <<temp_dirs, d_errors>>
       ELSE /\ temp_dirs' = Append(temp_dirs, depth)
            /\ UNCHANGED d_warnings
            /\ \E extracted \in BOOLEAN :
                 LET frame == [archive_name |-> name, depth |-> depth, seen |-> 0,
                               chain |-> Append(chain, name)]
                 IN  IF extracted
                     THEN /\ d_stack' = Append(stack, frame)
                          /\ d_last' = Event("extract", depth, name, <<>>, chain)
                          /\ UNCHANGED d_errors
                     ELSE /\ d_stack' = StackAfterFailedExtract(stack, frame)
                          /\ d_last' = Event("extract_failed", depth, name, <<>>, chain)
                          /\ d_errors' = d_errors + 1

\* The walk of the base directory reports a file that is skipped: seen
\* before, or matching no pattern (discovery.py 113-122).
WalkSkip ==
    /\ d_pc = "walk" /\ AtTop
    /\ d_walked < MaxEntries
    /\ \E name \in FileNames :
         /\ AlreadyProcessed(name, processed_files) \/ ~MatchesPatterns(name)
         /\ d_last' = Event("skip", 0, name, <<>>, <<>>)
    /\ d_walked' = d_walked + 1
    /\ UNCHANGED <<processed_files, d_stack, d_archives, d_warnings, d_errors, temp_dirs, d_pc>>
    /\ DiscFrame

\* The walk reports a new matching log file and yields it
\* (discovery.py 122-133).
WalkYield ==
    /\ d_pc = "walk" /\ AtTop
    /\ d_walked < MaxEntries
    /\ \E name \in FileNames :
         /\ ~AlreadyProcessed(name, processed_files) /\ MatchesPatterns(name)
         /\ ~IsArchiveFile(name)
         /\ processed_files' = processed_files \cup {name}
         /\ d_last' = Event("yield", 0, name, DirectLineage(o_family, name), <<>>)
    /\ d_walked' = d_walked + 1
    /\ UNCHANGED <<d_stack, d_archives, d_warnings, d_errors, temp_dirs, d_pc>>
    /\ DiscFrame

\* The walk reports a new matching archive and enters it at depth 0
\* (discovery.py 122-129).
WalkArchive ==
    /\ d_pc = "walk" /\ AtTop
    /\ d_walked < MaxEntries
    /\ d_archives < MaxArchives
    /\ \E name \in FileNames :
         /\ ~AlreadyProcessed(name, processed_files) /\ MatchesPatterns(name)
         /\ IsArchiveFile(name)
         /\ processed_files' = processed_files \cup {name}
         /\ ProcessArchiveRecursive(name, 0, <<>>, d_stack)
    /\ d_walked' = d_walked + 1
    /\ UNCHANGED d_pc
    /\ DiscFrame

\* _process_extracted_contents meets a file matching no pattern
\* (discovery.py 293-296).
ContentsSkip ==
    /\ d_pc = "walk" /\ ~AtTop
    /\ TopFrame.seen < MaxMembers
    /\ \E name \in FileNames :
         /\ ~MatchesPatterns(name)
         /\ d_last' = Event("skip", TopFrame.depth, name, <<>>, TopFrame.chain)
    /\ d_stack' = [d_stack EXCEPT ![Len(d_stack)].seen = @ + 1]
    /\ UNCHANGED <<d_walked, processed_files, d_archives, d_warnings, d_errors, temp_dirs, d_pc>>
    /\ DiscFrame

\* _process_extracted_contents meets a matching log file and yields it
\* (discovery.py 303-307).
ContentsYield ==
    /\ d_pc = "walk" /\ ~AtTop
    /\ TopFrame.seen < MaxMembers
    /\ \E name \in FileNames :
         /\ MatchesPatterns(name) /\ ~IsArchiveFile(name)
         /\ d_last' = Event("yield", TopFrame.depth, name,
                            MemberLineage(o_family, TopFrame.archive_name, name),
                            TopFrame.chain)
    /\ d_stack' = [d_stack EXCEPT ![Len(d_stack)].seen = @ + 1]
    /\ UNCHANGED <<d_walked, processed_files, d_archives, d_warnings, d_errors, temp_dirs, d_pc>>
    /\ DiscFrame

\* _process_extracted_contents meets a nested archive and recurses at
\* depth + 1 (discovery.py 297-302).
ContentsArchive ==
    /\ d_pc = "walk" /\ ~AtTop
    /\ TopFrame.seen < MaxMembers
    /\ d_archives < MaxArchives
    /\ \E name \in FileNames :
         /\ MatchesPatterns(name) /\ IsArchiveFile(name)
         /\ ProcessArchiveRecursive(name, TopFrame.depth + 1, TopFrame.chain,
                                    [d_stack EXCEPT ![Len(d_stack)].seen = @ + 1])
    /\ UNCHANGED <<d_walked, processed_files, d_pc>>
    /\ DiscFrame

\* The walk of an extracted directory is over: the innermost generator
\* returns to its caller (discovery.py 290-307).
ContentsEnd ==
    /\ d_pc = "walk" /\ ~AtTop
    /\ d_stack' = SubSeq(d_stack, 1, Len(d_stack) - 1)
    /\ d_last' = Event("return", TopFrame.depth, TopFrame.archive_name, <<>>,
                       TopFrame.chain)
    /\ UNCHANGED <<d_walked, processed_files, d_archives, d_warnings, d_errors, temp_dirs, d_pc>>
    /\ DiscFrame

\* os.walk of the base directory is exhausted (discovery.py 109).
WalkEnd ==
    /\ d_pc = "walk" /\ AtTop
    /\ d_pc' = "done"
    /\ d_last' = NoEvent
    /\ UNCHANGED <<d_walked, processed_files, d_stack, d_archives, d_warnings, d_errors, temp_dirs>>
    /\ DiscFrame

NextDisc ==
    \/ WalkSkip
    \/ WalkYield
    \/ WalkArchive
    \/ ContentsSkip
    \/ ContentsYield
    \/ ContentsArchive
    \/ ContentsEnd
    \/ WalkEnd

SpecDisc == InitDisc /\ [][NextDisc]_vars

(***************************************************************************)
(* SpecExtract: one call of _extract_archive on a tar or zip archive       *)
(***************************************************************************)
InitExtract ==
    /\ x_kind \in {"tar", "zip"}
    /\ x_members \in SeqsUpTo(MemberNames, MaxArchiveMembers)
    /\ x_pos = 0
    /\ x_extracted = <<>>
    /\ x_warned = <<>>
    /\ x_pc = "open"
    /\ chunk_size = DefaultChunkSize
    /\ batch_size = OrchestratorBatchSize
    /\ ProcIdle
    /\ OrchIdle
    /\ DiscIdle
    /\ QryIdle
    /\ FileIdle
    /\ ClaIdle
    /\ ClnIdle
    /\ InsIdle
    /\ SrvIdle
    /\ NexIdle
    /\ ReqIdle
    /\ ParIdle

\* tarfile.open / zipfile.ZipFile succeeds and the member list is read
\* (discovery.py 217-219, 228-229).
ExtractOpen ==
    /\ x_pc = "open"
    /\ x_pc' = "run"
    /\ UNCHANGED <<x_kind, x_members, x_pos, x_extracted, x_warned>>
    /\ UNCHANGED <<procVars, orchVars, discVars, qryVars, fileVars, claVars, clnVars, insVars, srvVars, nexVars, reqVars, parVars>>

\* Opening the archive raises (not an archive, unreadable): the `except`
\* returns False (discovery.py 254-256).
ExtractOpenFails ==
    /\ x_pc = "open"
    /\ x_pc' = "false"
    /\ UNCHANGED <<x_kind, x_members, x_pos, x_extracted, x_warned>>
    /\ UNCHANGED <<procVars, orchVars, discVars, qryVars, fileVars, claVars, clnVars, insVars, srvVars, nexVars, reqVars, parVars>>

\* The loop meets a member that passes _is_safe_path and extracts it
\* (discovery.py 220-221, 230-231).
ExtractSafeMember ==
    /\ x_pc = "run"
    /\ x_pos < Len(x_members)
    /\ IsSafePath(x_members[x_pos + 1])
    /\ x_extracted' = Append(x_extracted, x_pos + 1)
    /\ x_pos' = x_pos + 1
    /\ UNCHANGED <<x_kind, x_members, x_warned, x_pc>>
    /\ UNCHANGED <<procVars, orchVars, discVars, qryVars, fileVars, claVars, clnVars, insVars, srvVars, nexVars, reqVars, parVars>>

\* The loop meets a member that fails _is_safe_path: a warning, no extract
\* (discovery.py 222-223, 232-233).
SkipUnsafeMember ==
    /\ x_pc = "run"
    /\ x_pos < Len(x_members)
    /\ ~IsSafePath(x_members[x_pos + 1])
    /\ x_warned' = Append(x_warned, x_pos + 1)
    /\ x_pos' = x_pos + 1
    /\ UNCHANGED <<x_kind, x_members, x_extracted, x_pc>>
    /\ UNCHANGED <<procVars, orchVars, discVars, qryVars, fileVars, claVars, clnVars, insVars, srvVars, nexVars, reqVars, parVars>>

\* extract() of a safe member raises (disk full, permission): the `except`
\* returns False and the loop is left (discovery.py 254-256).
ExtractMemberFails ==
    /\ x_pc = "run"
    /\ x_pos < Len(x_members)
    /\ IsSafePath(x_members[x_pos + 1])
    /\ x_pc' = "false"
    /\ UNCHANGED <<x_kind, x_members, x_pos, x_extracted, x_warned>>
    /\ UNCHANGED <<procVars, orchVars, discVars, qryVars, fileVars, claVars, clnVars, insVars, srvVars, nexVars, reqVars, parVars>>

\* The loop is over: `return True` (discovery.py 224, 234).
ExtractReturn ==
    /\ x_pc = "run"
    /\ x_pos = Len(x_members)
    /\ x_pc' = "true"
    /\ UNCHANGED <<x_kind, x_members, x_pos, x_extracted, x_warned>>
    /\ UNCHANGED <<procVars, orchVars, discVars, qryVars, fileVars, claVars, clnVars, insVars, srvVars, nexVars, reqVars, parVars>>

NextExtract ==
    \/ ExtractOpen
    \/ ExtractOpenFails
    \/ ExtractSafeMember
    \/ SkipUnsafeMember
    \/ ExtractMemberFails
    \/ ExtractReturn

SpecExtract == InitExtract /\ [][NextExtract]_vars

(***************************************************************************)
(* SpecQuery: one query through execute_query, the MCP tool or the web     *)
(* route                                                                   *)
(***************************************************************************)
InitQuery ==
    /\ q_surface \in {"db", "mcp", "web"}
    /\ q_query \in Queries
    /\ q_limit \in 0..MaxLimit
    /\ q_rows \in 0..MaxRows
    /\ q_pc = IF q_surface = "db" THEN "db" ELSE "call"
    /\ q_sent = <<>>
    /\ q_returned = 0
    /\ chunk_size = DefaultChunkSize
    /\ batch_size = OrchestratorBatchSize
    /\ ProcIdle
    /\ OrchIdle
    /\ DiscIdle
    /\ ExtIdle
    /\ FileIdle
    /\ ClaIdle
    /\ ClnIdle
    /\ InsIdle
    /\ SrvIdle
    /\ NexIdle
    /\ ReqIdle
    /\ ParIdle

\* execute_sql_query turns the query away (mcp/tools.py 127-133).
McpRejects ==
    /\ q_surface = "mcp" /\ q_pc = "call"
    /\ ~IsSelectQuery(q_query)
    /\ q_pc' = "rejected"
    /\ UNCHANGED <<q_surface, q_query, q_limit, q_rows, q_sent, q_returned>>
    /\ UNCHANGED <<procVars, orchVars, discVars, extVars, fileVars, claVars, clnVars, insVars, srvVars, nexVars, reqVars, parVars>>

\* execute_sql_query calls execute_query with request.limit, 100 when the
\* caller gave none (mcp/tools.py 108, 124, 137).
McpAccepts ==
    /\ q_surface = "mcp" /\ q_pc = "call"
    /\ IsSelectQuery(q_query)
    /\ q_limit' = IF q_limit = 0 THEN McpDefaultLimit ELSE q_limit
    /\ q_pc' = "db"
    /\ UNCHANGED <<q_surface, q_query, q_rows, q_sent, q_returned>>
    /\ UNCHANGED <<procVars, orchVars, discVars, extVars, fileVars, claVars, clnVars, insVars, srvVars, nexVars, reqVars, parVars>>

\* The web route turns the query away with status 400 (web/routes.py 170-186).
WebRejects ==
    /\ q_surface = "web" /\ q_pc = "call"
    /\ ~StartsWithSelect(q_query) \/ ContainsForbiddenKeyword(Strip(Upper(q_query)))
    /\ q_pc' = "rejected"
    /\ UNCHANGED <<q_surface, q_query, q_limit, q_rows, q_sent, q_returned>>
    /\ UNCHANGED <<procVars, orchVars, discVars, extVars, fileVars, claVars, clnVars, insVars, srvVars, nexVars, reqVars, parVars>>

\* The web route calls execute_query with
\* `min(query_request.limit or 100, 1000)` (web/routes.py 188-190).
WebAccepts ==
    /\ q_surface = "web" /\ q_pc = "call"
    /\ StartsWithSelect(q_query) /\ ~ContainsForbiddenKeyword(Strip(Upper(q_query)))
    /\ q_limit' = Min(IF q_limit = 0 THEN WebDefaultLimit ELSE q_limit, WebMaxLimit)
    /\ q_pc' = "db"
    /\ UNCHANGED <<q_surface, q_query, q_rows, q_sent, q_returned>>
    /\ UNCHANGED <<procVars, orchVars, discVars, extVars, fileVars, claVars, clnVars, insVars, srvVars, nexVars, reqVars, parVars>>

\* execute_query raises ValueError before a session is opened
\* (database/base.py 90-93).
DbRejects ==
    /\ q_pc = "db"
    /\ ~StartsWithSelect(q_query)
    /\ q_pc' = "rejected"
    /\ UNCHANGED <<q_surface, q_query, q_limit, q_rows, q_sent, q_returned>>
    /\ UNCHANGED <<procVars, orchVars, discVars, extVars, fileVars, claVars, clnVars, insVars, srvVars, nexVars, reqVars, parVars>>

\* execute_query gives the text to the session, which runs it and returns
\* the rows (database/base.py 95-105).
DbExecutes ==
    /\ q_pc = "db"
    /\ StartsWithSelect(q_query)
    /\ RunsAsSelect(TextToExecute(q_query, q_limit))
    /\ q_sent' = Append(q_sent, TextToExecute(q_query, q_limit))
    /\ q_returned' = RowsFetched(TextToExecute(q_query, q_limit), q_rows)
    /\ q_pc' = "done"
    /\ UNCHANGED <<q_surface, q_query, q_limit, q_rows>>
    /\ UNCHANGED <<procVars, orchVars, discVars, extVars, fileVars, claVars, clnVars, insVars, srvVars, nexVars, reqVars, parVars>>

\* execute_query gives the text to the session, which raises on it; the
\* exception is logged and re-raised (database/base.py 106-108).
DbExecuteFails ==
    /\ q_pc = "db"
    /\ StartsWithSelect(q_query)
    /\ ~RunsAsSelect(TextToExecute(q_query, q_limit))
    /\ q_sent' = Append(q_sent, TextToExecute(q_query, q_limit))
    /\ q_pc' = "db_error"
    /\ UNCHANGED <<q_surface, q_query, q_limit, q_rows, q_returned>>
    /\ UNCHANGED <<procVars, orchVars, discVars, extVars, fileVars, claVars, clnVars, insVars, srvVars, nexVars, reqVars, parVars>>

NextQuery ==
    \/ McpRejects
    \/ McpAccepts
    \/ WebRejects
    \/ WebAccepts
    \/ DbRejects
    \/ DbExecutes
    \/ DbExecuteFails

SpecQuery == InitQuery /\ [][NextQuery]_vars

(***************************************************************************)
(* SpecFile: one call of process_file_to_database                          *)
(***************************************************************************)
InitFile ==
    /\ f_family \in {"nginx", "nexus"}
    /\ chunk_size \in 1..MaxChunk
    /\ batch_size \in 1..MaxBatch
    /\ f_stream \in {st \in SeqsUpTo(LineKinds, MaxLines) : WellFormedStream(st)}
    /\ f_next = 0
    /\ f_calls = <<>>
    /\ f_pc = "loop"
    /\ f_stats = [lines_processed |-> 0, entries_inserted |-> 0, parse_errors |-> 0]
    /\ ProcIdle
    /\ OrchIdle
    /\ DiscIdle
    /\ ExtIdle
    /\ QryIdle
    /\ ClaIdle
    /\ ClnIdle
    /\ InsIdle
    /\ SrvIdle
    /\ NexIdle
    /\ ReqIdle
    /\ ParIdle

\* The loop takes the next batch and the insert method stores it
\* (base.py 236-241).
FileInsertBatch ==
    /\ f_pc = "loop"
    /\ f_next < Len(FileBatches)
    /\ f_calls' = Append(f_calls, [method |-> GetBatchInsertMethod(f_family),
                                   records |-> FileBatches[f_next + 1].records,
                                   raised |-> FALSE])
    /\ f_next' = f_next + 1
    /\ UNCHANGED <<f_family, f_stream, f_pc, f_stats>>
    /\ UNCHANGED <<procVars, orchVars, discVars, extVars, qryVars, claVars, clnVars, insVars, srvVars, nexVars, reqVars, parVars>>

\* The loop takes the next batch and the insert method raises: the `except`
\* logs and the loop is left (base.py 236-247).
FileInsertFails ==
    /\ f_pc = "loop"
    /\ f_next < Len(FileBatches)
    /\ f_calls' = Append(f_calls, [method |-> GetBatchInsertMethod(f_family),
                                   records |-> FileBatches[f_next + 1].records,
                                   raised |-> TRUE])
    /\ f_next' = f_next + 1
    /\ f_pc' = "stats"
    /\ UNCHANGED <<f_family, f_stream, f_stats>>
    /\ UNCHANGED <<procVars, orchVars, discVars, extVars, qryVars, claVars, clnVars, insVars, srvVars, nexVars, reqVars, parVars>>

\* process_file_content is exhausted: the loop ends (base.py 236).
FileLoopEnds ==
    /\ f_pc = "loop"
    /\ f_next = Len(FileBatches)
    /\ f_pc' = "stats"
    /\ UNCHANGED <<f_family, f_stream, f_next, f_calls, f_stats>>
    /\ UNCHANGED <<procVars, orchVars, discVars, extVars, qryVars, claVars, clnVars, insVars, srvVars, nexVars, reqVars, parVars>>

\* The stats are computed from the processor counters and returned
\* (base.py 249-258).
FileStats ==
    /\ f_pc = "stats"
    /\ LET failed == f_calls # <<>> /\ f_calls[Len(f_calls)].raised
           r == ProcessFileToDatabase([processed_count |-> 0, error_count |-> 0],
                                      f_stream, IF failed THEN f_next ELSE 0,
                                      chunk_size, batch_size)
       IN  f_stats' = r.stats
    /\ f_pc' = "done"
    /\ UNCHANGED <<f_family, f_stream, f_next, f_calls>>
    /\ UNCHANGED <<procVars, orchVars, discVars, extVars, qryVars, claVars, clnVars, insVars, srvVars, nexVars, reqVars, parVars>>

NextFile ==
    \/ FileInsertBatch
    \/ FileInsertFails
    \/ FileLoopEnds
    \/ FileStats

SpecFile == InitFile /\ [][NextFile]_vars

(***************************************************************************)
(* SpecClassify: one file that matched a pattern, classified by            *)
(* _discover_files_by_patterns and, if an archive, handed to               *)
(* _extract_archive                                                        *)
(***************************************************************************)
InitClassify ==
    /\ c_name \in SeqsUpTo(NameParts, MaxSuffixes)
    /\ c_pc = "matched"
    /\ c_handler = "none"
    /\ chunk_size = DefaultChunkSize
    /\ batch_size = OrchestratorBatchSize
    /\ ProcIdle
    /\ OrchIdle
    /\ DiscIdle
    /\ ExtIdle
    /\ QryIdle
    /\ FileIdle
    /\ ClnIdle
    /\ InsIdle
    /\ SrvIdle
    /\ NexIdle
    /\ ReqIdle
    /\ ParIdle

\* _is_archive_file is true: _process_archive_recursive is entered
\* (discovery.py 125-129).
ClassifyArchive ==
    /\ c_pc = "matched"
    /\ IsArchiveFileParts(c_name)
    /\ c_pc' = "archive"
    /\ UNCHANGED <<c_name, c_handler>>
    /\ UNCHANGED <<procVars, orchVars, discVars, extVars, qryVars, fileVars, clnVars, insVars, srvVars, nexVars, reqVars, parVars>>

\* _is_archive_file is false: the file is yielded as a direct log file
\* (discovery.py 130-133).
ClassifyDirect ==
    /\ c_pc = "matched"
    /\ ~IsArchiveFileParts(c_name)
    /\ c_pc' = "yielded"
    /\ UNCHANGED <<c_name, c_handler>>
    /\ UNCHANGED <<procVars, orchVars, discVars, extVars, qryVars, fileVars, clnVars, insVars, srvVars, nexVars, reqVars, parVars>>

\* _extract_archive takes the tar, zip or gzip branch (discovery.py 215-248).
ExtractByHandler ==
    /\ c_pc = "archive"
    /\ ArchiveHandler(c_name) # "unsupported"
    /\ c_handler' = ArchiveHandler(c_name)
    /\ c_pc' = "extracted"
    /\ UNCHANGED c_name
    /\ UNCHANGED <<procVars, orchVars, discVars, extVars, qryVars, fileVars, clnVars, insVars, srvVars, nexVars, reqVars, parVars>>

\* _extract_archive prints "Unsupported archive format" and returns False
\* (discovery.py 250-252).
ExtractUnsupported ==
    /\ c_pc = "archive"
    /\ ArchiveHandler(c_name) = "unsupported"
    /\ c_pc' = "unsupported"
    /\ UNCHANGED <<c_name, c_handler>>
    /\ UNCHANGED <<procVars, orchVars, discVars, extVars, qryVars, fileVars, clnVars, insVars, srvVars, nexVars, reqVars, parVars>>

NextClassify ==
    \/ ClassifyArchive
    \/ ClassifyDirect
    \/ ExtractByHandler
    \/ ExtractUnsupported

SpecClassify == InitClassify /\ [][NextClassify]_vars

(***************************************************************************)
(* SpecCleanup: one call of cleanup_temp_dirs                              *)
(***************************************************************************)
InitCleanup ==
    /\ r_kinds \in SeqsUpTo(DirKinds, MaxTempDirs)
    /\ r_temp_dirs = [i \in 1..Len(r_kinds) |-> i]
    /\ r_pos = 0
    /\ r_attempted = <<>>
    /\ r_removed = {}
    /\ r_warned = {}
    /\ r_pc = "loop"
    /\ chunk_size = DefaultChunkSize
    /\ batch_size = OrchestratorBatchSize
    /\ ProcIdle
    /\ OrchIdle
    /\ DiscIdle
    /\ ExtIdle
    /\ QryIdle
    /\ FileIdle
    /\ ClaIdle
    /\ InsIdle
    /\ SrvIdle
    /\ NexIdle
    /\ ReqIdle
    /\ ParIdle

\* The directory exists and rmtree removes it (discovery.py 317-321).
CleanupRemoves ==
    /\ r_pc = "loop"
    /\ r_pos < Len(r_temp_dirs)
    /\ r_kinds[r_temp_dirs[r_pos + 1]] = "removable"
    /\ r_attempted' = Append(r_attempted, r_temp_dirs[r_pos + 1])
    /\ r_removed' = r_removed \cup {r_temp_dirs[r_pos + 1]}
    /\ r_pos' = r_pos + 1
    /\ UNCHANGED <<r_kinds, r_temp_dirs, r_warned, r_pc>>
    /\ UNCHANGED <<procVars, orchVars, discVars, extVars, qryVars, fileVars, claVars, insVars, srvVars, nexVars, reqVars, parVars>>

\* The directory exists and rmtree raises: the warning is printed
\* (discovery.py 317-323).
CleanupRemoveFails ==
    /\ r_pc = "loop"
    /\ r_pos < Len(r_temp_dirs)
    /\ r_kinds[r_temp_dirs[r_pos + 1]] = "undeletable"
    /\ r_attempted' = Append(r_attempted, r_temp_dirs[r_pos + 1])
    /\ r_warned' = r_warned \cup {r_temp_dirs[r_pos + 1]}
    /\ r_pos' = r_pos + 1
    /\ r_pc' = RmtreeFailureCaught(r_pc)
    /\ UNCHANGED <<r_kinds, r_temp_dirs, r_removed>>
    /\ UNCHANGED <<procVars, orchVars, discVars, extVars, qryVars, fileVars, claVars, insVars, srvVars, nexVars, reqVars, parVars>>

\* os.path.exists is false: nothing is done for the directory
\* (discovery.py 319).
CleanupSkipsMissing ==
    /\ r_pc = "loop"
    /\ r_pos < Len(r_temp_dirs)
    /\ r_kinds[r_temp_dirs[r_pos + 1]] = "missing"
    /\ r_pos' = r_pos + 1
    /\ UNCHANGED <<r_kinds, r_temp_dirs, r_attempted, r_removed, r_warned, r_pc>>
    /\ UNCHANGED <<procVars, orchVars, discVars, extVars, qryVars, fileVars, claVars, insVars, srvVars, nexVars, reqVars, parVars>>

\* The loop is over: self._temp_dirs.clear() and return (discovery.py 325).
CleanupClears ==
    /\ r_pc = "loop"
    /\ r_pos = Len(r_temp_dirs)
    /\ r_temp_dirs' = <<>>
    /\ r_pos' = 0
    /\ r_pc' = "returned"
    /\ UNCHANGED <<r_kinds, r_attempted, r_removed, r_warned>>
    /\ UNCHANGED <<procVars, orchVars, discVars, extVars, qryVars, fileVars, claVars, insVars, srvVars, nexVars, reqVars, parVars>>

NextCleanup ==
    \/ CleanupRemoves
    \/ CleanupRemoveFails
    \/ CleanupSkipsMissing
    \/ CleanupClears

SpecCleanup == InitCleanup /\ [][NextCleanup]_vars

(***************************************************************************)
(* SpecInsert: one call of batch_insert (the nginx and the nexus class     *)
(* have the same body)                                                     *)
(***************************************************************************)
InitInsert ==
    /\ b_log_data \in SeqsUpTo(EntryKinds, MaxInsertBatch)
    /\ b_before \in {<<>>, <<0>>}
    /\ b_table = b_before
    /\ b_pos = 0
    /\ b_logs = <<>>
    /\ b_session = <<>>
    /\ b_result = -1
    /\ b_rolled_back = FALSE
    /\ b_closed = FALSE
    /\ b_pc = "start"
    /\ chunk_size = DefaultChunkSize
    /\ batch_size = OrchestratorBatchSize
    /\ ProcIdle
    /\ OrchIdle
    /\ DiscIdle
    /\ ExtIdle
    /\ QryIdle
    /\ FileIdle
    /\ ClaIdle
    /\ ClnIdle
    /\ SrvIdle
    /\ NexIdle
    /\ ReqIdle
    /\ ParIdle

InsFrame == UNCHANGED <<procVars, orchVars, discVars, extVars, qryVars, fileVars,
        claVars, clnVars, srvVars, nexVars, reqVars, parVars>>

\* `if not log_data: return 0` (nginx_database.py 33-34).
InsertEmpty ==
    /\ b_pc = "start"
    /\ b_log_data = <<>>
    /\ b_result' = 0
    /\ b_pc' = "returned"
    /\ UNCHANGED <<b_log_data, b_before, b_table, b_pos, b_logs, b_session,
                   b_rolled_back, b_closed>>
    /\ InsFrame

\* get_session opens a session and yields it (base.py 33-35).
InsertOpenSession ==
    /\ b_pc = "start"
    /\ b_log_data # <<>>
    /\ b_pc' = "build"
    /\ UNCHANGED <<b_log_data, b_before, b_table, b_pos, b_logs, b_session, b_result,
                   b_rolled_back, b_closed>>
    /\ InsFrame

\* The model object of the next entry is built and kept
\* (nginx_database.py 39-56).
BuildEntry ==
    /\ b_pc = "build"
    /\ b_pos < Len(b_log_data)
    /\ Buildable(b_log_data[b_pos + 1])
    /\ b_logs' = Append(b_logs, b_pos + 1)
    /\ b_pos' = b_pos + 1
    /\ UNCHANGED <<b_log_data, b_before, b_table, b_session, b_result,
                   b_rolled_back, b_closed, b_pc>>
    /\ InsFrame

\* Building the next entry raises: "Skipping invalid entry" is logged and
\* the loop goes on (nginx_database.py 57-59).
SkipInvalidEntry ==
    /\ b_pc = "build"
    /\ b_pos < Len(b_log_data)
    /\ ~Buildable(b_log_data[b_pos + 1])
    /\ b_pos' = b_pos + 1
    /\ UNCHANGED <<b_log_data, b_before, b_table, b_logs, b_session, b_result,
                   b_rolled_back, b_closed, b_pc>>
    /\ InsFrame

\* add_all and flush succeed, `return len(nginx_logs)` is reached
\* (nginx_database.py 61-63); nothing was built: `return 0` (64-65).
FlushBatch ==
    /\ b_pc = "build"
    /\ b_pos = Len(b_log_data)
    /\ FlushAccepts(b_log_data, b_logs)
    /\ b_session' = b_logs
    /\ b_result' = Len(b_logs)
    /\ b_pc' = "commit"
    /\ UNCHANGED <<b_log_data, b_before, b_table, b_pos, b_logs, b_rolled_back, b_closed>>
    /\ InsFrame

\* flush raises (a refused row, a locked database): get_session rolls back,
\* closes and re-raises, batch_insert logs and re-raises (nginx_database.py
\* 61-62, 67-69; base.py 37-42).
FlushFails ==
    /\ b_pc = "build"
    /\ b_pos = Len(b_log_data)
    /\ b_logs # <<>>
    /\ b_table' = b_table \o RowsKeptByRollback(b_logs)
    /\ b_session' = <<>>
    /\ b_rolled_back' = TRUE
    /\ b_closed' = TRUE
    /\ b_pc' = "raised"
    /\ UNCHANGED <<b_log_data, b_before, b_pos, b_logs, b_result>>
    /\ InsFrame

\* The `with` block is left by the return: session.commit() succeeds, the
\* session is closed and the count is returned (base.py 36, 41-42).
CommitSucceeds ==
    /\ b_pc = "commit"
    /\ b_table' = b_table \o b_session
    /\ b_session' = <<>>
    /\ b_closed' = TRUE
    /\ b_pc' = "returned"
    /\ UNCHANGED <<b_log_data, b_before, b_pos, b_logs, b_result, b_rolled_back>>
    /\ InsFrame

\* session.commit() raises: rollback, close, re-raise; the pending return
\* value is dropped (base.py 36-42; nginx_database.py 67-69).
CommitFails ==
    /\ b_pc = "commit"
    /\ b_table' = b_table \o RowsKeptByRollback(b_session)
    /\ b_session' = <<>>
    /\ b_result' = -1
    /\ b_rolled_back' = TRUE
    /\ b_closed' = TRUE
    /\ b_pc' = "raised"
    /\ UNCHANGED <<b_log_data, b_before, b_pos, b_logs>>
    /\ InsFrame

NextInsert ==
    \/ InsertEmpty
    \/ InsertOpenSession
    \/ BuildEntry
    \/ SkipInvalidEntry
    \/ FlushBatch
    \/ FlushFails
    \/ CommitSucceeds
    \/ CommitFails

SpecInsert == InitInsert /\ [][NextInsert]_vars

(***************************************************************************)
(* SpecServer: one network-mode server; the caller's thread calls start()  *)
(* and then stop() any number of times, the server thread runs             *)
(* run_server.  The two interleave at every step.                          *)
(***************************************************************************)
InitServer ==
    /\ m_running = FALSE
    /\ m_caller = "start"
    /\ m_thread = "none"
    /\ m_ticks = 0
    /\ m_stops = 0
    /\ m_start_log = "none"
    /\ chunk_size = DefaultChunkSize
    /\ batch_size = OrchestratorBatchSize
    /\ ProcIdle
    /\ OrchIdle
    /\ DiscIdle
    /\ ExtIdle
    /\ QryIdle
    /\ FileIdle
    /\ ClaIdle
    /\ ClnIdle
    /\ InsIdle
    /\ NexIdle
    /\ ReqIdle
    /\ ParIdle

SrvFrame == UNCHANGED <<procVars, orchVars, discVars, extVars, qryVars, fileVars,
        claVars, clnVars, insVars, nexVars, reqVars, parVars>>

\* start() finds the server not running and _start_network_server starts
\* the thread, then sleeps (server.py 199-264).
StartSpawnsThread ==
    /\ m_caller = "start"
    /\ ~m_running
    /\ m_thread' = "spawned"
    /\ m_caller' = "sleep"
    /\ UNCHANGED <<m_running, m_ticks, m_stops, m_start_log>>
    /\ SrvFrame

\* time.sleep(1) is over: start() logs what it sees in self._running and
\* returns (server.py 264-269).
StartReturns ==
    /\ m_caller = "sleep"
    /\ m_start_log' = IF m_running THEN "started" ELSE "failed"
    /\ m_caller' = "ready"
    /\ UNCHANGED <<m_running, m_thread, m_ticks, m_stops>>
    /\ SrvFrame

\* stop() finds self._running false: "MCP server is not running", return
\* (server.py 287-289).
StopNotRunning ==
    /\ m_caller = "ready"
    /\ m_stops < MaxStopCalls
    /\ ~m_running
    /\ m_stops' = m_stops + 1
    /\ UNCHANGED <<m_running, m_caller, m_thread, m_ticks, m_start_log>>
    /\ SrvFrame

\* stop() finds self._running true and goes on (server.py 287, 291).
StopChecks ==
    /\ m_caller = "ready"
    /\ m_stops < MaxStopCalls
    /\ m_running
    /\ m_caller' = "stop_set"
    /\ UNCHANGED <<m_running, m_thread, m_ticks, m_stops, m_start_log>>
    /\ SrvFrame

\* self._running = False, then the thread is joined if it is alive
\* (server.py 292-295).
StopClearsFlag ==
    /\ m_caller = "stop_set"
    /\ m_running' = FALSE
    /\ IF m_thread = "exited"
       THEN m_caller' = "ready" /\ m_stops' = m_stops + 1
       ELSE m_caller' = "join" /\ UNCHANGED m_stops
    /\ UNCHANGED <<m_thread, m_ticks, m_start_log>>
    /\ SrvFrame

\* join(timeout=5) returns, because the thread ended or the five seconds
\* passed, and stop() returns (server.py 295-297).
StopJoinReturns ==
    /\ m_caller = "join"
    /\ m_caller' = "ready"
    /\ m_stops' = m_stops + 1
    /\ UNCHANGED <<m_running, m_thread, m_ticks, m_start_log>>
    /\ SrvFrame

\* run_server: the event loop is made and self._running = True
\* (server.py 244-250).
ThreadSetsRunning ==
    /\ m_thread = "spawned"
    /\ m_running' = TRUE
    /\ m_thread' = "loop"
    /\ UNCHANGED <<m_caller, m_ticks, m_stops, m_start_log>>
    /\ SrvFrame

\* run_server fails before the loop: self._running = False and the thread
\* ends (server.py 253-257).
ThreadFails ==
    /\ m_thread = "spawned"
    /\ m_running' = FALSE
    /\ m_thread' = "exited"
    /\ UNCHANGED <<m_caller, m_ticks, m_stops, m_start_log>>
    /\ SrvFrame

\* `while self._running: await asyncio.sleep(1)` goes round once more
\* (server.py 278-279).
ThreadTick ==
    /\ m_thread = "loop"
    /\ m_running
    /\ m_ticks' = Min(m_ticks + 1, MaxTicks)
    /\ UNCHANGED <<m_running, m_caller, m_thread, m_stops, m_start_log>>
    /\ SrvFrame

\* The loop test finds self._running false: _run_network_server returns and
\* the thread ends (server.py 278, 251, 256-257).
ThreadLeavesLoop ==
    /\ m_thread = "loop"
    /\ ~m_running
    /\ m_thread' = "exited"
    /\ UNCHANGED <<m_running, m_caller, m_ticks, m_stops, m_start_log>>
    /\ SrvFrame

NextServer ==
    \/ StartSpawnsThread
    \/ StartReturns
    \/ StopNotRunning
    \/ StopChecks
    \/ StopClearsFlag
    \/ StopJoinReturns
    \/ ThreadSetsRunning
    \/ ThreadFails
    \/ ThreadTick
    \/ ThreadLeavesLoop

SpecServer == InitServer /\ [][NextServer]_vars

\* The server thread is scheduled again and again, and a call that has begun
\* runs to its end; whether and when the caller calls stop() is left open.
FairSpecServer ==
    /\ SpecServer
    /\ WF_vars(ThreadSetsRunning \/ ThreadFails)
    /\ WF_vars(ThreadLeavesLoop)
    /\ WF_vars(StartReturns)
    /\ WF_vars(StopClearsFlag)
    /\ WF_vars(StopJoinReturns)

(***************************************************************************)
(* SpecNexusLine: parse_log_line of the nexus processor on a line that     *)
(* conforms to the pattern up to processing_time_ms, with a valid          *)
(* timestamp and status code                                               *)
(***************************************************************************)
InitNexusLine ==
    /\ n_tail \in SeqsUpTo(TailTokens, MaxTailTokens)
    /\ n_pc = "line"
    /\ n_record = NoNexusFields
    /\ chunk_size = DefaultChunkSize
    /\ batch_size = OrchestratorBatchSize
    /\ ProcIdle
    /\ OrchIdle
    /\ DiscIdle
    /\ ExtIdle
    /\ QryIdle
    /\ FileIdle
    /\ ClaIdle
    /\ ClnIdle
    /\ InsIdle
    /\ SrvIdle
    /\ ReqIdle
    /\ ParIdle

NexFrame == UNCHANGED <<procVars, orchVars, discVars, extVars, qryVars, fileVars,
        claVars, clnVars, insVars, srvVars, reqVars, parVars>>

\* The pattern matches: the record is built from the groups
\* (nexus_processor.py 97-148).
NexusLineParsed ==
    /\ n_pc = "line"
    /\ MatchNexusTail(n_tail).matched
    /\ n_record' = [user_agent |-> MatchNexusTail(n_tail).user_agent,
                    thread_info |-> MatchNexusTail(n_tail).thread_info]
    /\ n_pc' = "record"
    /\ UNCHANGED n_tail
    /\ NexFrame

\* The pattern does not match: "Invalid Nexus log format", None is returned
\* (nexus_processor.py 104-106).
NexusLineRejected ==
    /\ n_pc = "line"
    /\ ~MatchNexusTail(n_tail).matched
    /\ n_pc' = "none"
    /\ UNCHANGED <<n_tail, n_record>>
    /\ NexFrame

NextNexusLine ==
    \/ NexusLineParsed
    \/ NexusLineRejected

SpecNexusLine == InitNexusLine /\ [][NextNexusLine]_vars

(***************************************************************************)
(* SpecRequest: one call of _parse_request_field                           *)
(***************************************************************************)
InitRequest ==
    /\ g_request \in SeqsUpTo(RequestTokens, MaxRequestTokens)
    /\ g_pc = "call"
    /\ g_result = NoRequestResult
    /\ chunk_size = DefaultChunkSize
    /\ batch_size = OrchestratorBatchSize
    /\ ProcIdle
    /\ OrchIdle
    /\ DiscIdle
    /\ ExtIdle
    /\ QryIdle
    /\ FileIdle
    /\ ClaIdle
    /\ ClnIdle
    /\ InsIdle
    /\ SrvIdle
    /\ NexIdle
    /\ ParIdle

ReqFrame == UNCHANGED <<procVars, orchVars, discVars, extVars, qryVars, fileVars,
        claVars, clnVars, insVars, srvVars, nexVars, parVars>>

\* The request is "METHOD path HTTP/version": the three parts are returned
\* (nginx_processor.py 162-168).
RequestIsHttp ==
    /\ g_pc = "call"
    /\ IsHttpRequest(g_request)
    /\ g_result' = ParseRequestField(g_request)
    /\ g_pc' = "returned"
    /\ UNCHANGED g_request
    /\ ReqFrame

\* Any other request gets one of the four markers (nginx_processor.py
\* 170-181).
RequestIsNotHttp ==
    /\ g_pc = "call"
    /\ ~IsHttpRequest(g_request)
    /\ g_result' = ParseRequestField(g_request)
    /\ g_pc' = "returned"
    /\ UNCHANGED g_request
    /\ ReqFrame

NextRequest ==
    \/ RequestIsHttp
    \/ RequestIsNotHttp

SpecRequest == InitRequest /\ [][NextRequest]_vars

(***************************************************************************)
(* SpecParse: one call of parse_log_line; the two processors take the same *)
(* steps for the fields modelled                                           *)
(***************************************************************************)
InitParse ==
    /\ y_family \in {"nginx", "nexus"}
    /\ y_line \in Lines
    /\ y_pc = "match"
    /\ y_timestamp = "unset"
    /\ y_result = NothingReturned
    /\ chunk_size = DefaultChunkSize
    /\ batch_size = OrchestratorBatchSize
    /\ ProcIdle
    /\ OrchIdle
    /\ DiscIdle
    /\ ExtIdle
    /\ QryIdle
    /\ FileIdle
    /\ ClaIdle
    /\ ClnIdle
    /\ InsIdle
    /\ SrvIdle
    /\ NexIdle
    /\ ReqIdle

ParFrame == UNCHANGED <<procVars, orchVars, discVars, extVars, qryVars, fileVars,
        claVars, clnVars, insVars, srvVars, nexVars, reqVars>>

\* The pattern matches (nginx_processor.py 99-104, nexus_processor.py
\* 97-108).
LineMatches ==
    /\ y_pc = "match"
    /\ y_line.shape = "match"
    /\ y_pc' = "timestamp"
    /\ UNCHANGED <<y_family, y_line, y_timestamp, y_result>>
    /\ ParFrame

\* The pattern does not match: None (nginx_processor.py 100-102,
\* nexus_processor.py 104-106).
LineDoesNotMatch ==
    /\ y_pc = "match"
    /\ y_line.shape = "nomatch"
    /\ y_result' = ReturnedNone
    /\ y_pc' = "returned"
    /\ UNCHANGED <<y_family, y_line, y_timestamp>>
    /\ ParFrame

\* pattern.match raises; `except Exception` prints and returns None
\* (nginx_processor.py 142-144, nexus_processor.py 151-153).
MatchRaises ==
    /\ y_pc = "match"
    /\ y_line.shape = "notstr"
    /\ y_result' = ReturnedNone
    /\ y_pc' = "returned"
    /\ UNCHANGED <<y_family, y_line, y_timestamp>>
    /\ ParFrame

\* _parse_timestamp returns and the timestamp is kept
\* (nginx_processor.py 106-109, nexus_processor.py 111-114).
TimestampKept ==
    /\ y_pc = "timestamp"
    /\ y_line.timestamp # "error"
    /\ ~TimestampMissing(ParseTimestamp(y_line.timestamp))
    /\ y_timestamp' = ParseTimestamp(y_line.timestamp)
    /\ y_pc' = "status"
    /\ UNCHANGED <<y_family, y_line, y_result>>
    /\ ParFrame

\* _parse_timestamp returns None: "Invalid timestamp format", None.
TimestampRejected ==
    /\ y_pc = "timestamp"
    /\ y_line.timestamp # "error"
    /\ TimestampMissing(ParseTimestamp(y_line.timestamp))
    /\ y_timestamp' = ParseTimestamp(y_line.timestamp)
    /\ y_result' = ReturnedNone
    /\ y_pc' = "returned"
    /\ UNCHANGED <<y_family, y_line>>
    /\ ParFrame

\* _parse_timestamp raises something that is no ValueError; `except
\* Exception` of parse_log_line prints and returns None.
TimestampRaises ==
    /\ y_pc = "timestamp"
    /\ y_line.timestamp = "error"
    /\ y_result' = ReturnedNone
    /\ y_pc' = "returned"
    /\ UNCHANGED <<y_family, y_line, y_timestamp>>
    /\ ParFrame

\* The status code is an int: the record is returned (nginx_processor.py
\* 111-140, nexus_processor.py 116-148).
StatusKept ==
    /\ y_pc = "status"
    /\ ParseStatusCode(y_line.status) # "null"
    /\ y_result' = [kind |-> "record", timestamp |-> y_timestamp,
                    status_code |-> ParseStatusCode(y_line.status),
                    response_size |-> ParseSizeField(y_line.size)]
    /\ y_pc' = "returned"
    /\ UNCHANGED <<y_family, y_line, y_timestamp>>
    /\ ParFrame

\* _parse_status_code returns None: None (nginx_processor.py 119-121,
\* nexus_processor.py 117-119).
StatusRejected ==
    /\ y_pc = "status"
    /\ ParseStatusCode(y_line.status) = "null"
    /\ y_result' = ReturnedNone
    /\ y_pc' = "returned"
    /\ UNCHANGED <<y_family, y_line, y_timestamp>>
    /\ ParFrame

NextParse ==
    \/ LineMatches
    \/ LineDoesNotMatch
    \/ MatchRaises
    \/ TimestampKept
    \/ TimestampRejected
    \/ TimestampRaises
    \/ StatusKept
    \/ StatusRejected

SpecParse == InitParse /\ [][NextParse]_vars

(***************************************************************************)
(* SpecProc: one processor, one stream.                                    *)
(***************************************************************************)
InitProc ==
    /\ p_mode \in {"content", "lines"}
    /\ chunk_size \in 1..MaxChunk
    /\ batch_size \in 1..MaxBatch
    /\ p_stream \in {st \in SeqsUpTo(LineKinds, MaxLines) : WellFormedStream(st)}
    /\ p_pos = 0
    /\ p_gen = GenStart(0, 0)
    /\ p_pc = "run"
    /\ OrchIdle
    /\ DiscIdle
    /\ ExtIdle
    /\ QryIdle
    /\ FileIdle
    /\ ClaIdle
    /\ ClnIdle
    /\ InsIdle
    /\ SrvIdle
    /\ NexIdle
    /\ ReqIdle
    /\ ParIdle

\* process_file_content: the iterator hands over the next line.
ContentReadLine ==
    /\ p_mode = "content" /\ p_pc = "run"
    /\ p_pos < Len(p_stream)
    /\ p_stream[p_pos + 1] # "raise"
    /\ p_pos' = p_pos + 1
    /\ p_gen' = ContentLine(p_gen, p_stream, p_pos + 1, chunk_size, batch_size)
    /\ UNCHANGED <<p_mode, chunk_size, batch_size, p_stream, p_pc>>
    /\ UNCHANGED <<orchVars, discVars, extVars, qryVars, fileVars, claVars, clnVars, insVars, srvVars, nexVars, reqVars, parVars>>

\* process_file_content: the iterator is exhausted.
ContentFinish ==
    /\ p_mode = "content" /\ p_pc = "run"
    /\ p_pos = Len(p_stream)
    /\ p_gen' = ContentEOF(p_gen, p_stream, batch_size)
    /\ p_pc' = "done"
    /\ UNCHANGED <<p_mode, chunk_size, batch_size, p_stream, p_pos>>
    /\ UNCHANGED <<orchVars, discVars, extVars, qryVars, fileVars, claVars, clnVars, insVars, srvVars, nexVars, reqVars, parVars>>

\* process_file_content: reading the next line raises.
ContentReadFails ==
    /\ p_mode = "content" /\ p_pc = "run"
    /\ p_pos < Len(p_stream)
    /\ p_stream[p_pos + 1] = "raise"
    /\ p_gen' = GenRaise(p_gen)
    /\ p_pc' = "done"
    /\ UNCHANGED <<p_mode, chunk_size, batch_size, p_stream, p_pos>>
    /\ UNCHANGED <<orchVars, discVars, extVars, qryVars, fileVars, claVars, clnVars, insVars, srvVars, nexVars, reqVars, parVars>>

\* The lines one turn of process_file_lines' `while True` reads.
ChunkEnd == Min(p_pos + chunk_size, Len(p_stream))
ChunkRaises == \E i \in (p_pos + 1)..ChunkEnd : p_stream[i] = "raise"

\* process_file_lines: a chunk of up to chunk_size lines is read and parsed.
LinesReadChunk ==
    /\ p_mode = "lines" /\ p_pc = "run"
    /\ p_pos < Len(p_stream)
    /\ ~ChunkRaises
    /\ p_pos' = ChunkEnd
    /\ p_gen' = LinesChunk(p_gen, p_stream, p_pos + 1, ChunkEnd, batch_size)
    /\ UNCHANGED <<p_mode, chunk_size, batch_size, p_stream, p_pc>>
    /\ UNCHANGED <<orchVars, discVars, extVars, qryVars, fileVars, claVars, clnVars, insVars, srvVars, nexVars, reqVars, parVars>>

\* process_file_lines: readline() returns '' at once, the loop breaks.
LinesFinish ==
    /\ p_mode = "lines" /\ p_pc = "run"
    /\ p_pos = Len(p_stream)
    /\ p_gen' = LinesEOF(p_gen)
    /\ p_pc' = "done"
    /\ UNCHANGED <<p_mode, chunk_size, batch_size, p_stream, p_pos>>
    /\ UNCHANGED <<orchVars, discVars, extVars, qryVars, fileVars, claVars, clnVars, insVars, srvVars, nexVars, reqVars, parVars>>

\* process_file_lines: a readline() of the chunk raises; the lines of the
\* chunk read so far are dropped with it.
LinesReadFails ==
    /\ p_mode = "lines" /\ p_pc = "run"
    /\ p_pos < Len(p_stream)
    /\ ChunkRaises
    /\ p_gen' = GenRaise(p_gen)
    /\ p_pc' = "done"
    /\ UNCHANGED <<p_mode, chunk_size, batch_size, p_stream, p_pos>>
    /\ UNCHANGED <<orchVars, discVars, extVars, qryVars, fileVars, claVars, clnVars, insVars, srvVars, nexVars, reqVars, parVars>>

NextProc ==
    \/ ContentReadLine
    \/ ContentFinish
    \/ ContentReadFails
    \/ LinesReadChunk
    \/ LinesFinish
    \/ LinesReadFails

SpecProc == InitProc /\ [][NextProc]_vars

(***************************************************************************)
(* Claims about the stream processor (SpecProc)                            *)
(***************************************************************************)
Emitted == Records(p_gen.out)

\* C1: every batch the stream processor emits (process_file_content and
\* process_file_lines, the final batch included) holds at most batch_size
\* records.
C1_BatchCap ==
    \A i \in 1..Len(Emitted) : Len(Emitted[i]) <= batch_size

AllParseable == \A i \in 1..Len(p_stream) : p_stream[i] = "ok"

CeilDiv(a, b) == (a + b - 1) \div b

\* C2: a stream of L non-blank parseable lines comes out as exactly
\* ceil(L / batch_size) batches whose sizes sum to L.
C2_BatchCount ==
    (p_pc = "done" /\ AllParseable) =>
        /\ Len(Emitted) = CeilDiv(Len(p_stream), batch_size)
        /\ SumLen(Emitted) = Len(p_stream)

(***************************************************************************)
(* Claims about process_all_logs (Spec, FairSpec)                          *)
(***************************************************************************)
\* C3: every discovered file of a family is handed to _process_single_file
\* exactly once and in discovery order, whichever earlier files failed: the
\* calls made so far are the files before the loop index, and when the loop
\* is over they are the whole list.
C3_EveryFileHandedOnceInOrder ==
    o_pc = "files" =>
        /\ handed = SubSeq(log_files, 1, Len(handed))
        /\ Len(handed) = Min(o_idx, Len(log_files) + 1) - 1
        /\ (o_idx > Len(log_files) => handed = log_files)

\* C3 witness: the second file of a family was handed over although the
\* first one failed (it had left an error in the family's stats and no entry).
C3_Witness ==
    /\ o_pc = "files"
    /\ handed = <<1, 2>>
    /\ last_file.id = 2
    /\ o_stats.parse_errors > last_file.file_stats.parse_errors
    /\ o_stats.entries_parsed = last_file.file_stats.entries_parsed

\* A step that is one _process_single_file call of the file loop.
FileStep == handed' # handed /\ handed' # <<>>

CountKind(stream, kind) == Cardinality({i \in 1..Len(stream) : stream[i] = kind})

Unreadable(f) ==
    /\ f.family # "none"
    /\ \/ ~f.openable
       \/ (f.stream # <<>> /\ f.stream[1] = "raise")

\* C5: for an unreadable file _process_single_file reports zero lines, zero
\* parsed entries and exactly one parse error.
C5_UnreadableIsOneError ==
    Unreadable(last_file) =>
        last_file.file_stats =
            [lines_processed |-> 0, entries_parsed |-> 0, parse_errors |-> 1]

C7_RunAlwaysCompletes ==
    /\ <>(o_pc = "done")
    /\ [](o_pc = "done" =>
            /\ statistics.overall_end_time = "set"
            /\ (o_exception # "summary" => o_result = "returned"))

\* C7 witness: a completed run in which every file of both families failed.
C7_Witness ==
    /\ o_pc = "done"
    /\ o_result = "returned"
    /\ \A f \in {"nginx", "nexus"} :
         /\ statistics[f].files_processed >= 1
         /\ statistics[f].entries_parsed = 0
         /\ statistics[f].parse_errors = statistics[f].files_processed

\* C14: once a stream of blank, parseable and unparseable lines has been
\* read to its end, the processed counter has grown by the number of
\* parseable lines and the error counter by the number of non-blank
\* unparseable lines.
C14_LineAccounting ==
    (p_pc = "done" /\ CountKind(p_stream, "raise") = 0) =>
        /\ p_gen.processed = CountKind(p_stream, "ok")
        /\ p_gen.errors = CountKind(p_stream, "bad") + CountKind(p_stream, "nr")

\* C13: every batch that the orchestrator's processors hand to the batch
\* insert holds at most settings.chunk_size records.
C13_BatchWithinChunkSize ==
    \A i \in 1..Len(last_file.passed) :
        Len(last_file.passed[i]) <= settings.chunk_size

\* C15 (as claimed): while file k has not been fully processed, the archive
\* that yields file k+1, when it is another one than file k's, has not been
\* unpacked yet.
C15_ExtractionWaitsForPreviousFile ==
    o_pc = "files" =>
        \A k \in 1..(Len(log_files) - 1) :
            (k >= o_idx /\ o_origin[k + 1] # 0 /\ o_origin[k + 1] # o_origin[k])
                => o_origin[k + 1] > Len(temp_dirs)

\* C15 (amended): a family is handled in two phases.  Its discovery runs to
\* the end first, so every archive that yields one of its files is unpacked
\* before the first file is processed; the files are then processed one per
\* step, in order, and nothing is unpacked between them; the next family's
\* archives are unpacked only after every file of this one was processed.
C15_DiscoveryThenSequentialFiles ==
    [][/\ (o_pc' = "files" =>
              \A i \in 1..Len(log_files') : o_origin'[i] <= Len(temp_dirs'))
       /\ (FileStep =>
              /\ handed' = Append(handed, log_files[o_idx])
              /\ Len(handed') = o_idx
              /\ temp_dirs' = temp_dirs)
       /\ (Len(temp_dirs') > Len(temp_dirs) =>
              o_pc = "discover" /\ handed = log_files)]_vars

\* C15 witness: the second file comes from an archive that is already
\* unpacked while the first, a direct file, has not been processed.
C15_Witness ==
    /\ o_pc = "files"
    /\ Len(log_files) = 2
    /\ handed = <<>>
    /\ o_origin[1] = 0
    /\ o_origin[2] # 0
    /\ o_origin[2] <= Len(temp_dirs)

\* A step that removes a registered temp directory.
DirRemoved ==
    \/ Len(temp_dirs') < Len(temp_dirs)
    \/ \E i \in 1..Len(temp_dirs) : temp_dirs'[i] # temp_dirs[i]

C19_InsertedWithinStored ==
    last_file.file_stats.entries_parsed <= SumLen(last_file.inserted)

(***************************************************************************)
(* Claims about the discovery walk (SpecDisc)                              *)
(***************************************************************************)
\* A step that is one call of _process_archive_recursive.
ArchiveCall == d_archives' > d_archives

\* C8: an extraction proceeds (its temp directory is registered) only at a
\* depth below max_archive_depth, and a call of _process_archive_recursive
\* at a depth >= max_archive_depth is turned away: it registers no temp
\* directory and starts no walk of extracted contents, so it yields no file.
C8_DepthBound ==
    [][/\ (Len(temp_dirs') > Len(temp_dirs) =>
              temp_dirs'[Len(temp_dirs')] < max_archive_depth)
       /\ (ArchiveCall /\ d_last'.depth >= max_archive_depth =>
              /\ d_last'.kind = "blocked"
              /\ temp_dirs' = temp_dirs
              /\ Len(d_stack') = Len(d_stack))
       /\ (ArchiveCall /\ d_last'.kind = "blocked" =>
              d_last'.depth >= max_archive_depth)]_vars

\* C8 witness: after extractions at the depths below the limit, a nested
\* archive at the limit was turned away.
C8_Witness ==
    /\ d_last.kind = "blocked"
    /\ d_last.depth = max_archive_depth
    /\ Len(temp_dirs) = max_archive_depth
    /\ Len(d_stack) = max_archive_depth

\* C9: in an ingestion run the configured settings.max_archive_depth = N is
\* the limit: the orchestrator's discovery unpacks archives at depths
\* 0..N-1 only and turns away every archive at depth >= N.
C9_ConfiguredDepthGoverns ==
    d_owner = "orchestrator" =>
        /\ \A i \in 1..Len(temp_dirs) : temp_dirs[i] < settings.max_archive_depth
        /\ (d_last.kind \in {"extract", "extract_failed"} =>
               d_last.depth < settings.max_archive_depth)
        /\ (d_last.kind = "blocked" => d_last.depth >= settings.max_archive_depth)

RECURSIVE JoinArrow(_)
JoinArrow(names) ==
    IF Len(names) <= 1 THEN names
    ELSE <<Head(names), "->">> \o JoinArrow(Tail(names))

\* C10: the lineage of a file found inside nested archives a1 (outermost)
\* .. ak names every container from the outermost to the innermost and then
\* the file, joined by "->", after the family prefix.
C10_LineageNamesEveryContainer ==
    (d_last.kind = "yield" /\ d_last.chain # <<>>) =>
        d_last.lineage = <<o_family, ":">> \o JoinArrow(Append(d_last.chain, d_last.name))

\* C12: whatever max_archive_depth is, a call of _process_archive_recursive
\* for an archive at or beyond the limit starts no walk of its contents, so
\* the branch yields no file, and prints exactly one depth-limit warning;
\* no other step prints one.
C12_BlockedBranchWarnsOnce ==
    [][/\ (ArchiveCall /\ d_last'.depth >= max_archive_depth =>
              /\ d_warnings' = d_warnings + 1
              /\ d_last'.kind # "yield"
              /\ d_stack' \in {d_stack,
                               [d_stack EXCEPT ![Len(d_stack)].seen = @ + 1]})
       /\ (~(ArchiveCall /\ d_last'.depth >= max_archive_depth) =>
              d_warnings' = d_warnings)
       /\ (d_last'.kind = "yield" => d_last'.depth < max_archive_depth)]_vars

\* C12 witness: two branches of one archive were blocked at the limit, with
\* one warning each.
C12_Witness ==
    /\ d_last.kind = "blocked"
    /\ d_last.depth = max_archive_depth
    /\ d_warnings = 2
    /\ d_archives = 3

(***************************************************************************)
(* Claims about _extract_archive (SpecExtract)                             *)
(***************************************************************************)
SeqRange(q) == {q[i] : i \in 1..Len(q)}

\* A member name of the kinds the defence is stated for: it contains '..',
\* begins with a path separator, or is absolute.
TraversalName(path) == ContainsDotDot(path) \/ StartsWithSlash(path) \/ IsAbs(path)

\* C11: a member whose name contains '..', begins with a separator or is
\* absolute is never passed to extract() and is reported with a warning when
\* the loop meets it; skipping a member touches no other member: every
\* member the loop has met and not skipped has been extracted.
C11_PathTraversalDefence ==
    /\ \A i \in 1..Len(x_members) :
         TraversalName(x_members[i]) => i \notin SeqRange(x_extracted)
    /\ \A i \in 1..x_pos :
         /\ TraversalName(x_members[i]) => i \in SeqRange(x_warned)
         /\ i \notin SeqRange(x_warned) => i \in SeqRange(x_extracted)
    /\ x_pc = "true" => x_pos = Len(x_members)

\* C11 witness: the archive was unpacked to the end, a traversal member was
\* skipped and a later member was extracted.
C11_Witness ==
    /\ x_pc = "true"
    /\ \E i, j \in 1..Len(x_members) :
         /\ i < j
         /\ TraversalName(x_members[i])
         /\ i \in SeqRange(x_warned)
         /\ j \in SeqRange(x_extracted)

(***************************************************************************)
(* Claims about the query surfaces (SpecQuery)                             *)
(***************************************************************************)
\* A text made of SELECT statements and nothing else: it is not empty and
\* each of its statements begins with the keyword SELECT.
SolelySelectStatements(q) ==
    LET sts == SplitStatements(Strip(q), <<>>)
    IN  /\ sts # <<>>
        /\ \A i \in 1..Len(sts) : UpperToken(FirstToken(sts[i])) = "SELECT"

\* C16: a query reaches the database session only if it consists solely of
\* SELECT statements; any other text is rejected before anything is given
\* to the session.
C16_SelectOnly ==
    q_sent # <<>> => SolelySelectStatements(q_query)

\* C17: for an accepted query and a positive limit n passed to
\* execute_query, at most n rows are returned.
C17_RowsWithinLimit ==
    (q_pc = "done" /\ q_limit > 0) => q_returned <= q_limit

(***************************************************************************)
(* Claims about process_file_to_database (SpecFile)                        *)
(***************************************************************************)
RECURSIVE Flatten(_)
Flatten(batches) ==
    IF batches = <<>> THEN <<>> ELSE Head(batches) \o Flatten(Tail(batches))

NoInsertRaised == \A i \in 1..Len(f_calls) : ~f_calls[i].raised

\* C20: while no insert has raised, the calls of the batch insert are the
\* emitted batches, one call per batch and in emission order, each made on
\* the insert method of the file's family; once the loop is over every
\* emitted batch has been passed, and no record was passed twice or out of
\* line order.
C20_EveryBatchInsertedOnceInOrder ==
    NoInsertRaised =>
        /\ Len(f_calls) = f_next
        /\ f_next <= Len(FileBatches)
        /\ \A i \in 1..Len(f_calls) :
              /\ f_calls[i].records = FileBatches[i].records
              /\ f_calls[i].method = IF f_family = "nginx"
                                     THEN "db_ops.nginx.batch_insert"
                                     ELSE "db_ops.nexus.batch_insert"
        /\ (f_pc \in {"stats", "done"} => Len(f_calls) = Len(FileBatches))
        /\ LET recs == Flatten([i \in 1..Len(f_calls) |-> f_calls[i].records])
           IN  \A i, j \in 1..Len(recs) : i < j => recs[i] < recs[j]

\* C20 witness: a nexus file whose lines left in several batches, all of
\* them stored.
C20_Witness ==
    /\ f_pc = "done"
    /\ f_family = "nexus"
    /\ NoInsertRaised
    /\ Len(f_calls) >= 2
    /\ f_stats.entries_inserted = Len(Flatten([i \in 1..Len(f_calls) |-> f_calls[i].records]))

(***************************************************************************)
(* Claims about archive classification (SpecClassify)                      *)
(***************************************************************************)
\* The name ends in .tar, .tar.gz, .tar.bz2, .zip or .gz, in any letter case.
EndsInArchiveSuffix(parts) ==
    \/ LowerPart(PathSuffix(parts)) \in {"tar", "zip", "gz"}
    \/ /\ Len(parts) >= 2
       /\ LowerPart(parts[Len(parts) - 1]) = "tar"
       /\ LowerPart(parts[Len(parts)]) = "bz2"

\* The format such a name denotes.
FormatOf(parts) ==
    IF LowerPart(PathSuffix(parts)) = "zip" THEN "zip"
    ELSE IF LowerPart(PathSuffix(parts)) = "gz"
            /\ ~(Len(parts) >= 2 /\ LowerPart(parts[Len(parts) - 1]) = "tar")
         THEN "gz"
    ELSE "tar"

\* C21: a matched file whose name ends in .tar, .tar.gz, .tar.bz2, .zip or
\* .gz (any letter case, any other dots) is never yielded as a direct log
\* file, never reported as an unsupported format, and is unpacked by the
\* handler of its format.
C21_ClassificationAgreesWithExtraction ==
    EndsInArchiveSuffix(c_name) =>
        /\ c_pc # "yielded"
        /\ c_pc # "unsupported"
        /\ (c_pc = "extracted" => c_handler = FormatOf(c_name))

(***************************************************************************)
(* Claims about failed extractions (SpecDisc)                              *)
(***************************************************************************)
\* The generators of the caller once the entry it is looking at is behind it.
CallerMovedOn ==
    IF AtTop THEN d_stack
    ELSE [d_stack EXCEPT ![Len(d_stack)].seen = @ + 1]

\* C22: a failed extraction ends only the archive's own branch: the walk is
\* not ended and nothing is raised (it is still live), the step yields no
\* file, no generator is opened over the failed archive's directory, and the
\* generators of the caller stand exactly where they would after any other
\* entry, so every later file and archive of the walk is still met.
C22_FailedExtractionEndsOnlyItsBranch ==
    [][d_last'.kind = "extract_failed" /\ d_errors' # d_errors =>
          /\ d_pc = "walk" /\ d_pc' = "walk"
          /\ d_last'.lineage = <<>>
          /\ d_stack' = CallerMovedOn
          /\ d_walked' = IF AtTop THEN d_walked + 1 ELSE d_walked
          /\ d_errors' = d_errors + 1]_vars

\* C22 witness: after an archive failed to extract, the walk went on
\* and yielded a file of the base directory.
C22_Witness ==
    /\ d_errors >= 1
    /\ d_last.kind = "yield"
    /\ d_last.depth = 0
    /\ AtTop
    /\ Len(temp_dirs) >= 2

(***************************************************************************)
(* Claims about cleanup_temp_dirs (SpecCleanup)                            *)
(***************************************************************************)
\* C23: a directory that cannot be deleted is never fatal: cleanup_temp_dirs
\* raises nothing, and when it has returned, rmtree was attempted once, in
\* registration order, on every registered directory that exists, the
\* failures among them were reported, and the register is empty.
C23_DeletionFailureNeverFatal ==
    /\ r_pc # "raised"
    /\ (r_pc = "returned" =>
          /\ r_temp_dirs = <<>>
          /\ \A i \in 1..Len(r_kinds) :
                r_kinds[i] # "missing" <=>
                   Cardinality({j \in 1..Len(r_attempted) : r_attempted[j] = i}) = 1
          /\ \A j, k \in 1..Len(r_attempted) : j < k => r_attempted[j] < r_attempted[k]
          /\ r_removed = {i \in 1..Len(r_kinds) : r_kinds[i] = "removable"}
          /\ r_warned = {i \in 1..Len(r_kinds) : r_kinds[i] = "undeletable"})

\* C23 witness: the first directory could not be deleted, and a later one
\* was removed all the same.
C23_Witness ==
    /\ r_pc = "returned"
    /\ Len(r_kinds) >= 2
    /\ 1 \in r_warned
    /\ \E i \in r_removed : i > 1

(***************************************************************************)
(* Claims about the walk of the base directory (SpecDisc)                  *)
(***************************************************************************)
\* A step of the walk of the base directory that yields the reported file or
\* expands it as an archive (unpacked, failed to unpack, or turned away).
BaseWalkTakes ==
    /\ d_walked' = d_walked + 1
    /\ d_last'.kind \in {"yield", "extract", "extract_failed", "blocked"}

\* C24: within one walk of the base directory a file is yielded or expanded
\* at most once per resolved path: a file is only taken when its path has
\* not been taken before, taking it records the path, and no path is ever
\* forgotten during the walk.
C24_AtMostOncePerResolvedPath ==
    [][/\ processed_files \subseteq processed_files'
       /\ (BaseWalkTakes =>
             /\ d_last'.name \notin processed_files
             /\ d_last'.name \in processed_files')]_vars

\* C24 witness: the walk reported a matching file a second time and passed
\* it over.
C24_Witness ==
    /\ d_last.kind = "skip"
    /\ d_last.depth = 0
    /\ d_walked = 2
    /\ MatchesPatterns(d_last.name)
    /\ d_last.name \in processed_files

(***************************************************************************)
(* Claims about batch_insert (SpecInsert)                                  *)
(***************************************************************************)
AllEntries == [i \in 1..Len(b_log_data) |-> i]

RECURSIVE BuildableEntries(_)
BuildableEntries(n) ==
    IF n = 0 THEN <<>>
    ELSE IF Buildable(b_log_data[n]) THEN Append(BuildableEntries(n - 1), n)
    ELSE BuildableEntries(n - 1)

C26_StopLeavesServerStopped ==
    [](m_stops >= 1 => <>[](m_thread = "exited" /\ ~m_running))

(***************************************************************************)
(* Claims about the nexus line pattern (SpecNexusLine)                     *)
(***************************************************************************)
\* The line ends after processing_time_ms with the user-agent, the thread
\* field, or both left out.
OmitsTrailingField(tail) == tail \in {<<>>, <<"sp", "ua">>, <<"sp", "th">>}

\* C27: a line conforming up to processing_time_ms that leaves out the
\* user-agent, the thread field, or both is parsed into a record, in which
\* the field that is present is captured and each omitted field is null.
C27_TrailingFieldsOptional ==
    n_pc # "line" /\ OmitsTrailingField(n_tail) =>
        /\ n_pc = "record"
        /\ n_record.user_agent = IF n_tail = <<"sp", "ua">> THEN "ua" ELSE "null"
        /\ n_record.thread_info = IF n_tail = <<"sp", "th">> THEN "th" ELSE "null"

(***************************************************************************)
(* Claims about the nginx request field (SpecRequest)                      *)
(***************************************************************************)
\* C28: a request that is not "METHOD path HTTP/version" gets the method
\* SSH-ATTEMPT if it begins with SSH-, otherwise JSON-RPC if it contains
\* "{" or "method", otherwise BINARY-DATA if it contains a non-printable
\* character, otherwise MALFORMED, always with http_version NON-HTTP.
C28_RequestClassification ==
    g_pc = "returned" /\ ~IsHttpRequest(g_request) =>
        /\ g_result.http_version = "NON-HTTP"
        /\ g_result.method =
              IF StartsWithToken(g_request, "SSH-") THEN "SSH-ATTEMPT"
              ELSE IF ContainsToken(g_request, "{") \/ ContainsToken(g_request, "method")
                   THEN "JSON-RPC"
              ELSE IF ContainsToken(g_request, "bin") THEN "BINARY-DATA"
              ELSE "MALFORMED"

\* C29: for every request that is not HTTP the stored path has at most 53
\* characters, and a request of more than 50 characters is stored as its
\* first 50 characters followed by "...".
C29_NonHttpPathBounded ==
    g_pc = "returned" /\ ~IsHttpRequest(g_request) =>
        /\ g_result.path.len <= 53
        /\ (CharLen(g_request) > 50 =>
               g_result.path.form = "cut" /\ g_result.path.len = 53)

(***************************************************************************)
(* Claims about parse_log_line (SpecParse)                                 *)
(***************************************************************************)
\* C30: parse_log_line of either parser never raises, and what it returns
\* is None or a record whose timestamp and status_code are both non-null;
\* it returns a record exactly for a line that matches the pattern and has
\* a valid timestamp and status code.
C30_NoPartialRecord ==
    /\ y_pc # "raised"
    /\ (y_pc = "returned" =>
          /\ y_result.kind \in {"None", "record"}
          /\ (y_result.kind = "record" =>
                 y_result.timestamp # "null" /\ y_result.status_code # "null")
          /\ (y_result.kind = "record" <=>
                 /\ y_line.shape = "match"
                 /\ y_line.timestamp = "valid"
                 /\ y_line.status = "int"))

\* C30 witness: a nexus line with an unusable response size gave a record
\* with its timestamp and status code set.
C30_Witness ==
    /\ y_pc = "returned"
    /\ y_family = "nexus"
    /\ y_line.size = "junk"
    /\ y_result.kind = "record"
    /\ y_result.timestamp = "set"
    /\ y_result.status_code = "set"
    /\ y_result.response_size = "null"

====
